---- MODULE Spec2Model ----
(***************************************************************************)
(* University timetable scheduler: the constraint-programming engine       *)
(* (solver/app/solver/optimizer.py) and the stand-alone validator          *)
(* (solver/app/solver/validator.py).                                       *)
(*                                                                         *)
(* One optimize_timetable request is a run of the state machine            *)
(*   new -> init -> vars -> hard -> soft -> objective -> solved -> done    *)
(* and validate_timetable is applied to the returned assignments.          *)
(* Times are "HH:MM" strings in the code; here a time string is the pair   *)
(* <<HH, MM>> and the conversions are the code's arithmetic.               *)
(***************************************************************************)
EXTENDS Integers, Sequences, FiniteSets, TLC

VARIABLES payload, pc, time_slots, assignment_vars, model, penalty_vars,
          objective_set, status, solver, result, validation, validator_assignments

vars == <<payload, pc, time_slots, assignment_vars, model, penalty_vars,
          objective_set, status, solver, result, validation,
          validator_assignments>>

(***************************************************************************)
(* Bounds of the explored payloads.                                        *)
(***************************************************************************)
MaxDuration == 3
MaxCourses == 2
MaxSlots == 2

(***************************************************************************)
(* schemas.py                                                              *)
(***************************************************************************)
Day == {"MONDAY", "TUESDAY", "WEDNESDAY", "THURSDAY", "FRIDAY", "SATURDAY", "SUNDAY"}

\* Optional[str] = None (room_type)
None == "None"

\* a dict without keys; preferences = None is this dict too ("if not preferences")
EmptyDict == <<>>

\* TimetableOptimizer.__init__: self.days
days == <<"MONDAY", "TUESDAY", "WEDNESDAY", "THURSDAY", "FRIDAY">>

DaySet == {days[n] : n \in 1..Len(days)}

DayIndex(d) == CHOOSE n \in 1..Len(days) : days[n] = d

(***************************************************************************)
(* Time strings.                                                           *)
(***************************************************************************)
\* _time_to_minutes: hour * 60 + minute of "HH:MM"
time_to_minutes(time_str) == time_str[1] * 60 + time_str[2]

\* f"{m // 60:02d}:{m % 60:02d}"
format_time(m) == <<m \div 60, m % 60>>

\* "HH:MM-HH:MM".split('-')
range_start(time_range) == time_range[1]

range_end(time_range) == time_range[2]

(***************************************************************************)
(* Generic helpers.                                                        *)
(***************************************************************************)
Min(S) == CHOOSE x \in S : \A y \in S : x <= y

RECURSIVE SumOver(_, _)
SumOver(f, S) ==
    IF S = {} THEN 0
    ELSE LET x == CHOOSE y \in S : TRUE
         IN  f[x] + SumOver(f, S \ {x})

\* dict.get(key, default)
Get(dict, key, default) == IF key \in DOMAIN dict THEN dict[key] ELSE default

(***************************************************************************)
(* Key of a decision variable:                                             *)
(*   (course.id, day, slot_idx, room.id, instructor_id, group_id)          *)
(* slot_idx counts from 0 as in the code; time_slots is a TLA+ sequence,   *)
(* so slot_idx s is time_slots[s + 1].                                     *)
(***************************************************************************)
c_id(key) == key[1]

d_of(key) == key[2]

s_idx(key) == key[3]

r_id(key) == key[4]

i_id(key) == key[5]

g_id(key) == key[6]

slot_start(s) == time_slots[s + 1][1]

SlotIdxs == 0..(Len(time_slots) - 1)

(***************************************************************************)
(* Time Grid: TimetableOptimizer._generate_time_slots                      *)
(***************************************************************************)
RECURSIVE slots_from(_, _, _)
slots_from(current, min_duration, end_minutes) ==
    IF current + min_duration <= end_minutes
    THEN <<<<format_time(current), format_time(current + min_duration)>>>>
         \o slots_from(current + min_duration, min_duration, end_minutes)
    ELSE <<>>

\* a variant of the grid whose last slot must end before the end of the window
generate_time_slots_open(p) ==
    LET start_minutes == time_to_minutes(p.constraints.working_hours_start)
        end_minutes == time_to_minutes(p.constraints.working_hours_end)
        min_duration == Min({p.courses[c].duration : c \in DOMAIN p.courses})
    IN  slots_from(start_minutes, min_duration, end_minutes - 1)

generate_time_slots(p) ==
    LET start_minutes == time_to_minutes(p.constraints.working_hours_start)
        end_minutes == time_to_minutes(p.constraints.working_hours_end)
        min_duration == Min({p.courses[c].duration : c \in DOMAIN p.courses})
    IN  slots_from(start_minutes, min_duration, end_minutes)

\* min() of an empty sequence raises ValueError
init_raises(p) == DOMAIN p.courses = {}

(***************************************************************************)
(* Variable Space: TimetableOptimizer.create_decision_variables            *)
(***************************************************************************)
\* a variant of the fit test that compares the slot start, not the course end, with
\* the end of the working window
course_fits_by_start(course, s) ==
    LET slot_start_min == time_to_minutes(slot_start(s))
        working_end_min == time_to_minutes(payload.constraints.working_hours_end)
    IN  ~(slot_start_min > working_end_min)

course_fits(course, s) ==
    LET slot_start_min == time_to_minutes(slot_start(s))
        slot_end_min == slot_start_min + course.duration
        working_end_min == time_to_minutes(payload.constraints.working_hours_end)
    IN  ~(slot_end_min > working_end_min)

\* a variant of the variable space that leaves out the rooms too small for the group
create_decision_variables_in_capacity ==
    UNION { { key \in { <<c, d, s, r, i, g>> :
                          d \in DaySet,
                          s \in {x \in SlotIdxs : course_fits(payload.courses[c], x)},
                          r \in DOMAIN payload.rooms,
                          i \in payload.courses[c].instructor_ids,
                          g \in payload.courses[c].group_ids } :
                g_id(key) \in DOMAIN payload.groups
                  => payload.rooms[r_id(key)].capacity >= payload.groups[g_id(key)].size }
            : c \in DOMAIN payload.courses }

create_decision_variables ==
    UNION { { <<c, d, s, r, i, g>> :
                d \in DaySet,
                s \in {x \in SlotIdxs : course_fits(payload.courses[c], x)},
                r \in DOMAIN payload.rooms,
                i \in payload.courses[c].instructor_ids,
                g \in payload.courses[c].group_ids }
            : c \in DOMAIN payload.courses }

get_assignment_vars_for_course(course_id) ==
    {key \in assignment_vars : c_id(key) = course_id}

(***************************************************************************)
(* Hard Constraint Compiler.  The CP model is kept as                      *)
(*   eq1  : sets of variables whose sum is == 1                            *)
(*   le1  : sets of variables whose sum is <= 1                            *)
(*   fix0 : variables with var == 0                                        *)
(***************************************************************************)
EmptyModel == [eq1 |-> {}, le1 |-> {}, fix0 |-> {}]

\* _add_course_assignment_constraint
course_assignment_constraints ==
    { get_assignment_vars_for_course(c) : c \in DOMAIN payload.courses } \ {{}}

\* (course.duration + len(self.time_slots[0]) - 1) // len(self.time_slots[0])
\* time_slots[0] is the (start_time, end_time) tuple of the first slot
course_duration_slots(course) ==
    (course.duration + Len(time_slots[1]) - 1) \div Len(time_slots[1])

occupies(key, slot_idx) ==
    /\ s_idx(key) <= slot_idx
    /\ slot_idx < s_idx(key) + course_duration_slots(payload.courses[c_id(key)])

\* the sets of size > 1 only: "if len(conflicting_vars) > 1"
more_than_one(S) == \E x \in S : \E y \in S : x # y

\* _add_room_conflict_constraint
room_conflict_constraints ==
    { S \in { {key \in assignment_vars :
                    r_id(key) = rds[1] /\ d_of(key) = rds[2] /\ occupies(key, rds[3])}
              : rds \in (DOMAIN payload.rooms) \X DaySet \X SlotIdxs }
      : more_than_one(S) }

\* _add_instructor_conflict_constraint
instructor_conflict_constraints ==
    { S \in { {key \in assignment_vars :
                    i_id(key) = ids[1] /\ d_of(key) = ids[2] /\ occupies(key, ids[3])}
              : ids \in (DOMAIN payload.instructors) \X DaySet \X SlotIdxs }
      : more_than_one(S) }

\* _add_group_conflict_constraint
group_conflict_constraints ==
    { S \in { {key \in assignment_vars :
                    g_id(key) = gds[1] /\ d_of(key) = gds[2] /\ occupies(key, gds[3])}
              : gds \in (DOMAIN payload.groups) \X DaySet \X SlotIdxs }
      : more_than_one(S) }

\* a variant of the capacity rule with the comparison reversed
room_capacity_fixed_reversed ==
    {key \in assignment_vars :
        payload.groups[g_id(key)].size < payload.rooms[r_id(key)].capacity}

\* _add_room_capacity_constraint
room_capacity_fixed ==
    {key \in assignment_vars :
        payload.groups[g_id(key)].size > payload.rooms[r_id(key)].capacity}

\* self.groups[g_id] raises KeyError for a group id the payload lacks
room_capacity_raises ==
    \E key \in assignment_vars : g_id(key) \notin DOMAIN payload.groups

\* a variant of the type rule that forbids nothing
room_type_fixed_none == {}

\* _add_room_type_constraint
room_type_fixed ==
    {key \in assignment_vars :
        LET course == payload.courses[c_id(key)]
            room == payload.rooms[r_id(key)]
        IN  course.room_type # None /\ course.room_type # room.type}

\* a variant of the slot test that also admits a slot starting at the end of a range
slot_is_available_closed(available_ranges, s) ==
    LET slot_start_min == time_to_minutes(slot_start(s))
    IN  \E time_range \in available_ranges :
            /\ time_to_minutes(range_start(time_range)) <= slot_start_min
            /\ slot_start_min <= time_to_minutes(range_end(time_range))

\* the slot test of _add_instructor_availability_constraint
slot_is_available(available_ranges, s) ==
    LET slot_start_min == time_to_minutes(slot_start(s))
    IN  \E time_range \in available_ranges :
            /\ time_to_minutes(range_start(time_range)) <= slot_start_min
            /\ slot_start_min < time_to_minutes(range_end(time_range))

\* _add_instructor_availability_constraint
instructor_availability_fixed ==
    {key \in assignment_vars :
        /\ i_id(key) \in DOMAIN payload.instructors
        /\ LET available_ranges ==
                   Get(payload.instructors[i_id(key)].availability, d_of(key), {})
           IN  IF available_ranges = {}
               THEN TRUE
               ELSE ~slot_is_available(available_ranges, s_idx(key))}

hard_raises ==
    /\ Get(payload.constraints.hard, "roomCapacityCheck", TRUE)
    /\ room_capacity_raises

\* add_hard_constraints
add_hard_constraints ==
    LET hard == payload.constraints.hard
    IN  [eq1 |-> course_assignment_constraints,
         le1 |-> (IF Get(hard, "noRoomDoubleBooking", TRUE)
                  THEN room_conflict_constraints ELSE {})
                 \cup (IF Get(hard, "noInstructorDoubleBooking", TRUE)
                       THEN instructor_conflict_constraints ELSE {})
                 \cup group_conflict_constraints,
         fix0 |-> (IF Get(hard, "roomCapacityCheck", TRUE)
                   THEN room_capacity_fixed ELSE {})
                  \cup (IF Get(hard, "roomTypeMatch", TRUE)
                        THEN room_type_fixed ELSE {})
                  \cup instructor_availability_fixed]

(***************************************************************************)
(* Soft Constraint Compiler.  A penalty term is                            *)
(*   [kind, key, key2, weight]                                             *)
(* pref_day, pref_time, room_size: penalty_var == var of key               *)
(* gap : gap_penalty >= var(key) + var(key2) - 1 - sum(middle_vars)        *)
(* diff: diff == |count(key) - count(key2)|, key = (instructor, day)       *)
(***************************************************************************)
NoKey == <<>>

Penalty(kind, key, key2, weight) ==
    [kind |-> kind, key |-> key, key2 |-> key2, weight |-> weight]

time_is_preferred(preferred_times, s) ==
    LET slot_start_min == time_to_minutes(slot_start(s))
    IN  \E time_range \in preferred_times :
            /\ time_to_minutes(range_start(time_range)) <= slot_start_min
            /\ slot_start_min < time_to_minutes(range_end(time_range))

\* _add_instructor_preference_penalties
instructor_preference_penalties(weight) ==
    UNION {
        LET instructor == payload.instructors[i]
            preferred_days == Get(instructor.preferences, "preferredDays", {})
            preferred_times == Get(instructor.preferences, "preferredTimes", {})
        IN  (IF preferred_days # {}
             THEN { Penalty("pref_day", key, NoKey, weight * 10) :
                      key \in {k \in assignment_vars :
                                  i_id(k) = i /\ d_of(k) \notin preferred_days} }
             ELSE {})
            \cup
            (IF preferred_times # {}
             THEN { Penalty("pref_time", key, NoKey, weight * 10) :
                      key \in {k \in assignment_vars :
                                  i_id(k) = i
                                  /\ ~time_is_preferred(preferred_times, s_idx(k))} }
             ELSE {})
        : i \in DOMAIN payload.instructors }

\* _add_schedule_compactness_penalties: one indicator per (start_var, end_var)
\* of a group and day with start slots slot_idx and slot_idx + 2
schedule_compactness_penalties(weight) ==
    { Penalty("gap", kk[1], kk[2], weight * 10) :
        kk \in { pair \in assignment_vars \X assignment_vars :
                    /\ g_id(pair[1]) \in DOMAIN payload.groups
                    /\ g_id(pair[1]) = g_id(pair[2])
                    /\ d_of(pair[1]) = d_of(pair[2])
                    /\ s_idx(pair[2]) = s_idx(pair[1]) + 2 } }

middle_vars(start_key) ==
    {k \in assignment_vars :
        /\ g_id(k) = g_id(start_key)
        /\ d_of(k) = d_of(start_key)
        /\ s_idx(k) = s_idx(start_key) + 1}

day_assignments(instructor_id, day) ==
    {k \in assignment_vars : i_id(k) = instructor_id /\ d_of(k) = day}

\* _add_balanced_load_penalties: one diff per pair i < j of the days on which the
\* instructor has variables
balanced_load_penalties(weight) ==
    { Penalty("diff", <<t[1], days[t[2]]>>, <<t[1], days[t[3]]>>, weight * 2) :
        t \in { x \in (DOMAIN payload.instructors) \X (1..Len(days)) \X (1..Len(days)) :
                    /\ x[2] < x[3]
                    /\ day_assignments(x[1], days[x[2]]) # {}
                    /\ day_assignments(x[1], days[x[3]]) # {} } }

\* the variables that reach "group = self.groups[g_id]"
room_preference_candidates ==
    {key \in assignment_vars :
        LET course == payload.courses[c_id(key)]
            room == payload.rooms[r_id(key)]
        IN  ~(course.room_type # None /\ room.type # course.room_type)}

\* room.capacity > group.size * 1.5
oversized(room, group) == 2 * room.capacity > 3 * group.size

\* _add_room_preference_penalties
room_preference_penalties(weight) ==
    { Penalty("room_size", key, NoKey, weight * 5) :
        key \in {k \in room_preference_candidates :
                    oversized(payload.rooms[r_id(k)], payload.groups[g_id(k)])} }

pref_weight == Get(payload.constraints.soft, "instructorPreferencesWeight", 5)

compact_weight == Get(payload.constraints.soft, "compactSchedulesWeight", 7)

balanced_weight == Get(payload.constraints.soft, "balancedDailyLoadWeight", 6)

room_weight == Get(payload.constraints.soft, "preferredRoomsWeight", 3)

soft_raises ==
    /\ room_weight > 0
    /\ \E key \in room_preference_candidates : g_id(key) \notin DOMAIN payload.groups

\* add_soft_constraints
add_soft_constraints ==
    (IF pref_weight > 0 THEN instructor_preference_penalties(pref_weight) ELSE {})
    \cup (IF compact_weight > 0
          THEN schedule_compactness_penalties(compact_weight) ELSE {})
    \cup (IF balanced_weight > 0 THEN balanced_load_penalties(balanced_weight) ELSE {})
    \cup (IF room_weight > 0 THEN room_preference_penalties(room_weight) ELSE {})

(***************************************************************************)
(* Solver Driver.  CP-SAT is the external collaborator: it returns OPTIMAL *)
(* with a solution of least objective (any solution when the model has no  *)
(* objective), FEASIBLE with some solution, INFEASIBLE when the model has  *)
(* none, UNKNOWN when the time bound ends the search.  A solution is the   *)
(* set of decision variables with value 1.                                 *)
(***************************************************************************)
Count(chosen, S) == Cardinality(chosen \cap S)

Abs(x) == IF x < 0 THEN -x ELSE x

\* the value the constraints force on a penalty variable (its least value)
penalty_value(p, chosen) ==
    CASE p.kind = "gap" ->
            LET lower == Count(chosen, {p.key}) + Count(chosen, {p.key2}) - 1
                         - Count(chosen, middle_vars(p.key))
            IN  IF lower > 0 THEN lower ELSE 0
      [] p.kind = "diff" ->
            Abs(Count(chosen, day_assignments(p.key[1], p.key[2]))
                - Count(chosen, day_assignments(p.key2[1], p.key2[2])))
      [] OTHER -> Count(chosen, {p.key})

\* NewIntVar(0, 100, ...): the domain of the count and diff variables
IntVarMax == 100

in_domains(chosen) ==
    \A p \in penalty_vars :
        p.kind = "diff" =>
            /\ Count(chosen, day_assignments(p.key[1], p.key[2])) <= IntVarMax
            /\ Count(chosen, day_assignments(p.key2[1], p.key2[2])) <= IntVarMax
            /\ penalty_value(p, chosen) <= IntVarMax

Satisfies(chosen) ==
    /\ \A S \in model.eq1 : Count(chosen, S) = 1
    /\ \A S \in model.le1 : Count(chosen, S) <= 1
    /\ chosen \cap model.fix0 = {}
    /\ in_domains(chosen)

\* every variable is in the sum of its course, so a solution holds one variable of
\* each sum == 1 and no other
RECURSIVE OnePerSum(_)
OnePerSum(sums) ==
    IF sums = {} THEN {{}}
    ELSE LET S == CHOOSE x \in sums : TRUE
         IN  { rest \cup {key} : rest \in OnePerSum(sums \ {S}),
                                 key \in S \ model.fix0 }

Solutions == {chosen \in OnePerSum(model.eq1) : Satisfies(chosen)}

RECURSIVE WeightedSum(_, _)
WeightedSum(P, chosen) ==
    IF P = {} THEN 0
    ELSE LET p == CHOOSE x \in P : TRUE
         IN  penalty_value(p, chosen) * p.weight + WeightedSum(P \ {p}, chosen)

\* sum(var * weight for var, weight in self.penalty_vars) at the least values
objective_of(chosen) ==
    WeightedSum({p \in penalty_vars : penalty_value(p, chosen) > 0}, chosen)

\* gap indicators the constraints leave free: a solution that is not proven optimal
\* may hold them at 1
\* (the model takes none, one or all of them at 1)
free_gap_extras(chosen) ==
    LET free == {p \in penalty_vars : p.kind = "gap" /\ penalty_value(p, chosen) = 0}
    IN  {n * compact_weight * 10 : n \in {m \in {0, 1, Cardinality(free)} :
                                              m <= Cardinality(free)}}

(***************************************************************************)
(* _analyze_infeasibility: the issues in the order the code appends them   *)
(***************************************************************************)
RECURSIVE SortedSeq(_)
SortedSeq(S) ==
    IF S = {} THEN <<>>
    ELSE LET x == Min(S) IN <<x>> \o SortedSeq(S \ {x})

RECURSIVE Flatten(_)
Flatten(seqs) ==
    IF seqs = <<>> THEN <<>> ELSE Head(seqs) \o Flatten(Tail(seqs))

SeqMap(Op(_), s) == [n \in 1..Len(s) |-> Op(s[n])]

\* a variant of issues[:3] that keeps one issue less
Prefix_one_less(s, n) == IF Len(s) <= n - 1 THEN s ELSE SubSeq(s, 1, n - 1)

Prefix(s, n) == IF Len(s) <= n THEN s ELSE SubSeq(s, 1, n)

analyze_raises ==
    \E c \in DOMAIN payload.courses :
        \E g \in payload.courses[c].group_ids : g \notin DOMAIN payload.groups

available_hours(instructor) ==
    LET ranges_of(n) == Get(instructor.availability, days[n], {})
        minutes(time_range) ==
            time_to_minutes(range_end(time_range))
            - time_to_minutes(range_start(time_range))
        day_hours(n) ==
            SumOver([r \in ranges_of(n) |-> minutes(r) \div 60], ranges_of(n))
    IN  SumOver([n \in 1..Len(days) |-> day_hours(n)], 1..Len(days))

required_hours(instructor_id) ==
    LET instructor_courses ==
            {c \in DOMAIN payload.courses : instructor_id \in payload.courses[c].instructor_ids}
    IN  SumOver([c \in instructor_courses |-> payload.courses[c].duration],
                instructor_courses) \div 60

analyze_infeasibility ==
    LET courses == SortedSeq(DOMAIN payload.courses)
        total_courses == Cardinality(DOMAIN payload.courses)
        total_rooms == Cardinality(DOMAIN payload.rooms)
        total_slots == Len(time_slots) * Len(days)
        slot_issues ==
            IF total_courses > total_rooms * total_slots
            THEN <<[kind |-> "room_time_slots", id |-> total_rooms * total_slots]>>
            ELSE <<>>
        capacity_of_group(g) ==
            IF \E r \in DOMAIN payload.rooms :
                   payload.rooms[r].capacity >= payload.groups[g].size
            THEN <<>>
            ELSE <<[kind |-> "capacity", id |-> g]>>
        capacity_of_course(c) ==
            Flatten(SeqMap(capacity_of_group, SortedSeq(payload.courses[c].group_ids)))
        type_of_course(c) ==
            IF /\ payload.courses[c].room_type # None
               /\ ~\E r \in DOMAIN payload.rooms :
                      payload.rooms[r].type = payload.courses[c].room_type
            THEN <<[kind |-> "room_type", id |-> c]>>
            ELSE <<>>
        hours_of_instructor(i) ==
            IF required_hours(i) > available_hours(payload.instructors[i])
            THEN <<[kind |-> "instructor_hours", id |-> i]>>
            ELSE <<>>
        issues ==
            slot_issues
            \o Flatten(SeqMap(capacity_of_course, courses))
            \o Flatten(SeqMap(type_of_course, courses))
            \o Flatten(SeqMap(hours_of_instructor, SortedSeq(DOMAIN payload.instructors)))
    IN  IF issues # <<>>
        THEN Prefix(issues, 3)
        ELSE <<[kind |-> "relax", id |-> 0]>>

Message(text, issues) == [text |-> text, issues |-> issues]

\* _handle_solver_status
handle_solver_status(st) ==
    CASE st = "OPTIMAL" -> Message("Optimal solution found", <<>>)
      [] st = "FEASIBLE" -> Message("Feasible solution found (not proven optimal)", <<>>)
      [] st = "INFEASIBLE" -> Message("No feasible solution: ", analyze_infeasibility)
      [] st = "MODEL_INVALID" ->
            Message("Model is invalid - check constraint definitions", <<>>)
      [] st = "UNKNOWN" ->
            Message("Timeout reached - try relaxing constraints or increasing time limit",
                    <<>>)

(***************************************************************************)
(* Solution Extractor: extract_solution                                    *)
(***************************************************************************)
\* the order of self.assignment_vars (a dict: insertion order of
\* create_decision_variables)
KeyRank(key) ==
    <<c_id(key), DayIndex(d_of(key)), s_idx(key), r_id(key), i_id(key), g_id(key)>>

RECURSIVE LexLess(_, _)
LexLess(a, b) ==
    IF a = <<>> \/ b = <<>> THEN FALSE
    ELSE \/ Head(a) < Head(b)
         \/ (Head(a) = Head(b) /\ LexLess(Tail(a), Tail(b)))

RECURSIVE KeysInOrder(_)
KeysInOrder(keys) ==
    IF keys = {} THEN <<>>
    ELSE LET first == CHOOSE k \in keys :
                         \A o \in keys \ {k} : LexLess(KeyRank(k), KeyRank(o))
         IN  <<first>> \o KeysInOrder(keys \ {first})

\* a variant of the extraction that reports the end of the grid slot as end_time
Assignment_slot_end(key) ==
    [course_id |-> c_id(key),
     instructor_id |-> i_id(key),
     room_id |-> r_id(key),
     group_id |-> g_id(key),
     day |-> d_of(key),
     start_time |-> slot_start(s_idx(key)),
     end_time |-> time_slots[s_idx(key) + 1][2]]

\* a variant of the extraction that writes the room id into instructor_id and the
\* instructor id into room_id
Assignment_swapped(key) ==
    LET course == payload.courses[c_id(key)]
        start_minutes == time_to_minutes(slot_start(s_idx(key)))
        end_minutes == start_minutes + course.duration
    IN  [course_id |-> c_id(key),
         instructor_id |-> r_id(key),
         room_id |-> i_id(key),
         group_id |-> g_id(key),
         day |-> d_of(key),
         start_time |-> slot_start(s_idx(key)),
         end_time |-> format_time(end_minutes)]

Assignment(key) ==
    LET course == payload.courses[c_id(key)]
        start_minutes == time_to_minutes(slot_start(s_idx(key)))
        end_minutes == start_minutes + course.duration
    IN  [course_id |-> c_id(key),
         instructor_id |-> i_id(key),
         room_id |-> r_id(key),
         group_id |-> g_id(key),
         day |-> d_of(key),
         start_time |-> slot_start(s_idx(key)),
         end_time |-> format_time(end_minutes)]

extract_assignments(chosen) == SeqMap(Assignment, KeysInOrder(chosen))

Fitness(num, den) == [num |-> num, den |-> den]

\* _calculate_fitness_score: (total_penalty / max_possible_penalty) * 100.0 as the
\* fraction num / den
calculate_fitness_score(objective_value) ==
    IF penalty_vars = {} THEN Fitness(0, 1)
    ELSE LET weights == {p.weight : p \in penalty_vars}
             max_possible_penalty ==
                 SumOver([w \in weights |->
                             w * Cardinality({p \in penalty_vars : p.weight = w})],
                         weights)
         IN  IF max_possible_penalty > 0
             THEN Fitness(objective_value * 100, max_possible_penalty)
             ELSE Fitness(0, 1)

ViolationDetail(constraint_type, severity, affected_assignments) ==
    [constraint_type |-> constraint_type,
     severity |-> severity,
     affected_assignments |-> affected_assignments]

\* _check_instructor_preference_violations
instructor_preference_violations_of(a) ==
    LET instructor == payload.instructors[a.instructor_id]
        preferred_days == Get(instructor.preferences, "preferredDays", {})
        preferred_times == Get(instructor.preferences, "preferredTimes", {})
        start_min == time_to_minutes(a.start_time)
        is_preferred ==
            \E time_range \in preferred_times :
                /\ time_to_minutes(range_start(time_range)) <= start_min
                /\ start_min < time_to_minutes(range_end(time_range))
    IN  (IF preferred_days # {} /\ a.day \notin preferred_days
         THEN <<ViolationDetail("instructor_day_preference", "soft", <<a.course_id>>)>>
         ELSE <<>>)
        \o (IF preferred_times # {} /\ ~is_preferred
            THEN <<ViolationDetail("instructor_time_preference", "soft", <<a.course_id>>)>>
            ELSE <<>>)

check_instructor_preference_violations(assignments) ==
    Flatten(SeqMap(instructor_preference_violations_of, assignments))

\* list.sort(key=start minutes): stable
RECURSIVE SortByStart(_, _)
SortByStart(s, idxs) ==
    IF idxs = {} THEN <<>>
    ELSE LET first == CHOOSE n \in idxs :
                         \A m \in idxs \ {n} :
                             \/ time_to_minutes(s[n].start_time)
                                  < time_to_minutes(s[m].start_time)
                             \/ (time_to_minutes(s[n].start_time)
                                   = time_to_minutes(s[m].start_time) /\ n < m)
         IN  <<s[first]>> \o SortByStart(s, idxs \ {first})

\* a variant of the report that also lists a gap of exactly 60 minutes
compactness_violations_of_from_sixty(assignments, g, d) ==
    LET idxs == {n \in 1..Len(assignments) :
                    assignments[n].group_id = g /\ assignments[n].day = d}
        sorted == SortByStart(assignments, idxs)
        gap_at(n) ==
            LET current_end == time_to_minutes(sorted[n].end_time)
                next_start == time_to_minutes(sorted[n + 1].start_time)
                gap_minutes == next_start - current_end
            IN  IF gap_minutes >= 60
                THEN <<ViolationDetail("schedule_compactness", "soft",
                                       <<sorted[n].course_id, sorted[n + 1].course_id>>)>>
                ELSE <<>>
    IN  IF Len(sorted) < 2 THEN <<>>
        ELSE Flatten([n \in 1..(Len(sorted) - 1) |-> gap_at(n)])

\* _check_compactness_violations
compactness_violations_of(assignments, g, d) ==
    LET idxs == {n \in 1..Len(assignments) :
                    assignments[n].group_id = g /\ assignments[n].day = d}
        sorted == SortByStart(assignments, idxs)
        gap_at(n) ==
            LET current_end == time_to_minutes(sorted[n].end_time)
                next_start == time_to_minutes(sorted[n + 1].start_time)
                gap_minutes == next_start - current_end
            IN  IF gap_minutes > 60
                THEN <<ViolationDetail("schedule_compactness", "soft",
                                       <<sorted[n].course_id, sorted[n + 1].course_id>>)>>
                ELSE <<>>
    IN  IF Len(sorted) < 2 THEN <<>>
        ELSE Flatten([n \in 1..(Len(sorted) - 1) |-> gap_at(n)])

check_compactness_violations(assignments) ==
    LET groups == SortedSeq(DOMAIN payload.groups)
        of_group(g) ==
            Flatten([n \in 1..Len(days) |->
                        compactness_violations_of(assignments, g, days[n])])
    IN  Flatten(SeqMap(of_group, groups))

\* _check_balanced_load_violations: variance > 2.0 over the five daily counts,
\* with the counts scaled by len(counts) to stay in integers
check_balanced_load_violations(assignments) ==
    LET n_days == Len(days)
        count(i, n) ==
            Cardinality({m \in 1..Len(assignments) :
                            assignments[m].instructor_id = i
                            /\ assignments[m].day = days[n]})
        total(i) == SumOver([n \in 1..n_days |-> count(i, n)], 1..n_days)
        scaled_squares(i) ==
            SumOver([n \in 1..n_days |->
                        (n_days * count(i, n) - total(i)) * (n_days * count(i, n) - total(i))],
                    1..n_days)
        of_instructor(i) ==
            IF total(i) = 0 THEN <<>>
            ELSE IF scaled_squares(i) > 2 * n_days * n_days * n_days
                 THEN <<ViolationDetail("balanced_daily_load", "soft", <<>>)>>
                 ELSE <<>>
    IN  Flatten(SeqMap(of_instructor, SortedSeq(DOMAIN payload.instructors)))

\* _check_room_preference_violations
room_preference_violations_of(a) ==
    IF oversized(payload.rooms[a.room_id], payload.groups[a.group_id])
    THEN <<ViolationDetail("room_preference", "soft", <<a.course_id>>)>>
    ELSE <<>>

check_room_preference_violations(assignments) ==
    Flatten(SeqMap(room_preference_violations_of, assignments))

\* _identify_violations
identify_violations(assignments) ==
    check_instructor_preference_violations(assignments)
    \o check_compactness_violations(assignments)
    \o check_balanced_load_violations(assignments)
    \o check_room_preference_violations(assignments)

\* self.instructors[assignment.instructor_id], self.groups[assignment.group_id]
extract_raises(chosen) ==
    \E key \in chosen :
        \/ i_id(key) \notin DOMAIN payload.instructors
        \/ g_id(key) \notin DOMAIN payload.groups

(***************************************************************************)
(* Validator: validator.py                                                 *)
(***************************************************************************)
\* a variant of _times_overlap that counts touching ranges as overlapping
times_overlap_closed(start1, end1, start2, end2) ==
    LET start1_min == time_to_minutes(start1)
        end1_min == time_to_minutes(end1)
        start2_min == time_to_minutes(start2)
        end2_min == time_to_minutes(end2)
    IN  start1_min <= end2_min /\ start2_min <= end1_min

\* _times_overlap
times_overlap(start1, end1, start2, end2) ==
    LET start1_min == time_to_minutes(start1)
        end1_min == time_to_minutes(end1)
        start2_min == time_to_minutes(start2)
        end2_min == time_to_minutes(end2)
    IN  start1_min < end2_min /\ start2_min < end1_min

\* the (resource, day) buckets in the order of their first assignment
RECURSIVE BucketKeys(_, _)
BucketKeys(keys, seen) ==
    IF keys = <<>> THEN <<>>
    ELSE IF Head(keys) \in seen THEN BucketKeys(Tail(keys), seen)
         ELSE <<Head(keys)>> \o BucketKeys(Tail(keys), seen \cup {Head(keys)})

\* for i in range(len(l)): for j in range(i + 1, len(l))
PairsInOrder(idxs) ==
    LET l == SortedSeq(idxs)
        from(i) == [j \in 1..(Len(l) - i) |-> <<l[i], l[i + j]>>]
    IN  Flatten([i \in 1..Len(l) |-> from(i)])

\* check_room_conflicts, check_instructor_conflicts, check_group_conflicts share
\* this shape: bucket by (resource id, day), compare every pair of a bucket
check_conflicts(assignments, resource, constraint_type) ==
    LET bucket_of(a) == <<a[resource], a.day>>
        buckets == BucketKeys(SeqMap(bucket_of, assignments), {})
        conflict_of(pair) ==
            LET a1 == assignments[pair[1]]
                a2 == assignments[pair[2]]
            IN  IF times_overlap(a1.start_time, a1.end_time, a2.start_time, a2.end_time)
                THEN <<ViolationDetail(constraint_type, "hard",
                                       <<a1.course_id, a2.course_id>>)>>
                ELSE <<>>
        of_bucket(b) ==
            Flatten(SeqMap(conflict_of,
                           PairsInOrder({n \in 1..Len(assignments) :
                                            bucket_of(assignments[n]) = b})))
    IN  Flatten(SeqMap(of_bucket, buckets))

check_room_conflicts(assignments) ==
    check_conflicts(assignments, "room_id", "room_conflict")

check_instructor_conflicts(assignments) ==
    check_conflicts(assignments, "instructor_id", "instructor_conflict")

check_group_conflicts(assignments) ==
    check_conflicts(assignments, "group_id", "group_conflict")

\* a variant of check_room_capacity_constraints that honours the roomCapacityCheck
\* toggle of the payload
check_room_capacity_constraints_if_enabled(assignments) ==
    LET of(a) ==
            IF /\ Get(payload.constraints.hard, "roomCapacityCheck", TRUE)
               /\ payload.groups[a.group_id].size > payload.rooms[a.room_id].capacity
            THEN <<ViolationDetail("room_capacity", "hard", <<a.course_id>>)>>
            ELSE <<>>
    IN  Flatten(SeqMap(of, assignments))

check_room_capacity_constraints(assignments) ==
    LET of(a) ==
            IF payload.groups[a.group_id].size > payload.rooms[a.room_id].capacity
            THEN <<ViolationDetail("room_capacity", "hard", <<a.course_id>>)>>
            ELSE <<>>
    IN  Flatten(SeqMap(of, assignments))

check_room_type_constraints(assignments) ==
    LET of(a) ==
            LET course == payload.courses[a.course_id]
                room == payload.rooms[a.room_id]
            IN  IF course.room_type # None /\ course.room_type # room.type
                THEN <<ViolationDetail("room_type", "hard", <<a.course_id>>)>>
                ELSE <<>>
    IN  Flatten(SeqMap(of, assignments))

\* a variant of check_instructor_availability that tests the start of the assignment
\* only
check_instructor_availability_by_start(assignments) ==
    LET of(a) ==
            LET instructor == payload.instructors[a.instructor_id]
                available_ranges == Get(instructor.availability, a.day, {})
                assignment_start_min == time_to_minutes(a.start_time)
                is_available ==
                    \E time_range \in available_ranges :
                        /\ time_to_minutes(range_start(time_range)) <= assignment_start_min
                        /\ assignment_start_min < time_to_minutes(range_end(time_range))
            IN  IF available_ranges = {} \/ ~is_available
                THEN <<ViolationDetail("instructor_availability", "hard", <<a.course_id>>)>>
                ELSE <<>>
    IN  Flatten(SeqMap(of, assignments))

check_instructor_availability(assignments) ==
    LET of(a) ==
            LET instructor == payload.instructors[a.instructor_id]
                available_ranges == Get(instructor.availability, a.day, {})
                assignment_start_min == time_to_minutes(a.start_time)
                assignment_end_min == time_to_minutes(a.end_time)
                is_available ==
                    \E time_range \in available_ranges :
                        /\ time_to_minutes(range_start(time_range)) <= assignment_start_min
                        /\ assignment_end_min <= time_to_minutes(range_end(time_range))
            IN  IF available_ranges = {} \/ ~is_available
                THEN <<ViolationDetail("instructor_availability", "hard", <<a.course_id>>)>>
                ELSE <<>>
    IN  Flatten(SeqMap(of, assignments))

\* a variant of check_working_hours that rejects an assignment ending with the window
check_working_hours_open(assignments) ==
    LET working_start_min == time_to_minutes(payload.constraints.working_hours_start)
        working_end_min == time_to_minutes(payload.constraints.working_hours_end)
        of(a) ==
            IF \/ time_to_minutes(a.start_time) < working_start_min
               \/ time_to_minutes(a.end_time) >= working_end_min
            THEN <<ViolationDetail("working_hours", "hard", <<a.course_id>>)>>
            ELSE <<>>
    IN  Flatten(SeqMap(of, assignments))

check_working_hours(assignments) ==
    LET working_start_min == time_to_minutes(payload.constraints.working_hours_start)
        working_end_min == time_to_minutes(payload.constraints.working_hours_end)
        of(a) ==
            IF \/ time_to_minutes(a.start_time) < working_start_min
               \/ time_to_minutes(a.end_time) > working_end_min
            THEN <<ViolationDetail("working_hours", "hard", <<a.course_id>>)>>
            ELSE <<>>
    IN  Flatten(SeqMap(of, assignments))

\* a lookup self.courses[..], self.rooms[..], self.groups[..] or self.instructors[..]
\* of an id the payload lacks raises KeyError
validate_raises(assignments) ==
    \E n \in 1..Len(assignments) :
        \/ assignments[n].course_id \notin DOMAIN payload.courses
        \/ assignments[n].room_id \notin DOMAIN payload.rooms
        \/ assignments[n].group_id \notin DOMAIN payload.groups
        \/ assignments[n].instructor_id \notin DOMAIN payload.instructors

\* a variant of validate_all that decides is_valid before the working-hours check
validate_all_before_hours(assignments) ==
    LET conflicts ==
            check_room_conflicts(assignments)
            \o check_instructor_conflicts(assignments)
            \o check_group_conflicts(assignments)
            \o check_room_capacity_constraints(assignments)
            \o check_room_type_constraints(assignments)
            \o check_instructor_availability(assignments)
    IN  [raised |-> FALSE, is_valid |-> (Len(conflicts) = 0),
         conflicts |-> conflicts \o check_working_hours(assignments)]

\* validate_all
validate_all(assignments) ==
    LET conflicts ==
            check_room_conflicts(assignments)
            \o check_instructor_conflicts(assignments)
            \o check_group_conflicts(assignments)
            \o check_room_capacity_constraints(assignments)
            \o check_room_type_constraints(assignments)
            \o check_instructor_availability(assignments)
            \o check_working_hours(assignments)
    IN  [raised |-> FALSE, is_valid |-> (Len(conflicts) = 0), conflicts |-> conflicts]

NoValidation == [raised |-> FALSE, is_valid |-> FALSE, conflicts |-> <<>>]

(***************************************************************************)
(* optimize_timetable, one step per call of its body, and validate_timetable*)
(* on the returned assignments.                                            *)
(***************************************************************************)
NoneFitness == [num |-> 0, den |-> 0]

NoSolver == [chosen |-> {}, objective_value |-> 0, message |-> Message("", <<>>)]

NoResult ==
    [success |-> FALSE, assignments |-> <<>>, fitness_score |-> NoneFitness,
     violations |-> <<>>, message |-> Message("", <<>>)]

\* a variant of the except branch that keeps a fitness of 0.0
Failed_with_fitness(error) ==
    [success |-> FALSE, assignments |-> <<>>, fitness_score |-> [num |-> 0, den |-> 1],
     violations |-> <<>>, message |-> [text |-> "Optimization failed: ", issues |-> <<error>>]]

\* except Exception as e: return False, [], None, [], solve_time, f"Optimization failed: ..."
Failed(error) ==
    [success |-> FALSE, assignments |-> <<>>, fitness_score |-> NoneFitness,
     violations |-> <<>>, message |-> Message("Optimization failed: ", <<error>>)]

Raise(error) ==
    /\ result' = Failed(error)
    /\ pc' = "done"

\* TimetableOptimizer.__init__
NewOptimizer ==
    /\ pc = "new"
    /\ IF init_raises(payload)
       THEN /\ Raise("ValueError")
            /\ UNCHANGED time_slots
       ELSE /\ time_slots' = generate_time_slots(payload)
            /\ pc' = "init"
            /\ UNCHANGED result
    /\ UNCHANGED <<payload, assignment_vars, model, penalty_vars, objective_set,
                   status, solver, validation,
                   validator_assignments>>

CreateDecisionVariables ==
    /\ pc = "init"
    /\ assignment_vars' = create_decision_variables
    /\ pc' = "vars"
    /\ UNCHANGED <<payload, time_slots, model, penalty_vars, objective_set, status,
                   solver, result, validation,
                   validator_assignments>>

AddHardConstraints ==
    /\ pc = "vars"
    /\ IF hard_raises
       THEN /\ Raise("KeyError")
            /\ UNCHANGED model
       ELSE /\ model' = add_hard_constraints
            /\ pc' = "hard"
            /\ UNCHANGED result
    /\ UNCHANGED <<payload, time_slots, assignment_vars, penalty_vars, objective_set,
                   status, solver, validation,
                   validator_assignments>>

AddSoftConstraints ==
    /\ pc = "hard"
    /\ IF soft_raises
       THEN /\ Raise("KeyError")
            /\ UNCHANGED penalty_vars
       ELSE /\ penalty_vars' = add_soft_constraints
            /\ pc' = "soft"
            /\ UNCHANGED result
    /\ UNCHANGED <<payload, time_slots, assignment_vars, model, objective_set, status,
                   solver, validation,
                   validator_assignments>>

\* set_objective: Minimize(...) only "if self.penalty_vars"
SetObjective ==
    /\ pc = "soft"
    /\ objective_set' = (penalty_vars # {})
    /\ pc' = "objective"
    /\ UNCHANGED <<payload, time_slots, assignment_vars, model, penalty_vars, status,
                   solver, result, validation,
                   validator_assignments>>

Solved(st, chosen, objective_value) ==
    /\ status' = st
    /\ solver' = [chosen |-> chosen, objective_value |-> objective_value,
                  message |-> handle_solver_status(st)]
    /\ pc' = "solved"
    /\ UNCHANGED result

\* the solutions of the model, each with its objective value
Solved_values == {<<chosen, objective_of(chosen)>> : chosen \in Solutions}

\* solve: solver.Solve(self.model), then _handle_solver_status
Solve ==
    /\ pc = "objective"
    /\ \E solutions \in {Solved_values} :
          \/ /\ solutions # {}
             /\ \E least \in {Min({sol[2] : sol \in solutions})} :
                   \E sol \in solutions :
                       /\ objective_set => sol[2] = least
                       /\ Solved("OPTIMAL", sol[1], sol[2])
          \/ /\ solutions # {}
             /\ objective_set
             /\ \E sol \in solutions :
                   \E extra \in free_gap_extras(sol[1]) :
                       Solved("FEASIBLE", sol[1], sol[2] + extra)
          \/ /\ solutions = {}
             /\ IF analyze_raises
                THEN /\ Raise("KeyError")
                     /\ UNCHANGED <<status, solver>>
                ELSE Solved("INFEASIBLE", {}, 0)
          \/ Solved("UNKNOWN", {}, 0)
    /\ UNCHANGED <<payload, time_slots, assignment_vars, model, penalty_vars,
                   objective_set, validation,
                   validator_assignments>>

\* a variant of the extraction that does not test the status
ExtractSolution_any_status ==
    /\ pc = "solved"
    /\ IF extract_raises(solver.chosen)
       THEN Raise("KeyError")
       ELSE LET assignments == extract_assignments(solver.chosen)
            IN  /\ result' = [success |-> TRUE,
                              assignments |-> assignments,
                              fitness_score |-> calculate_fitness_score(solver.objective_value),
                              violations |-> identify_violations(assignments),
                              message |-> solver.message]
                /\ pc' = "done"
    /\ UNCHANGED <<payload, time_slots, assignment_vars, model, penalty_vars,
                   objective_set, status, solver, validation,
                   validator_assignments>>

\* optimize_timetable: status in [OPTIMAL, FEASIBLE] -> extract_solution
ExtractSolution ==
    /\ pc = "solved"
    /\ status \in {"OPTIMAL", "FEASIBLE"}
    /\ IF extract_raises(solver.chosen)
       THEN Raise("KeyError")
       ELSE LET assignments == extract_assignments(solver.chosen)
            IN  /\ result' = [success |-> TRUE,
                              assignments |-> assignments,
                              fitness_score |-> calculate_fitness_score(solver.objective_value),
                              violations |-> identify_violations(assignments),
                              message |-> solver.message]
                /\ pc' = "done"
    /\ UNCHANGED <<payload, time_slots, assignment_vars, model, penalty_vars,
                   objective_set, status, solver, validation,
                   validator_assignments>>

\* a variant of the else branch that returns success for every status
NoSolutionFound_as_success ==
    /\ pc = "solved"
    /\ status \notin {"OPTIMAL", "FEASIBLE"}
    /\ result' = [success |-> TRUE, assignments |-> <<>>,
                  fitness_score |-> NoneFitness, violations |-> <<>>,
                  message |-> solver.message]
    /\ pc' = "done"
    /\ UNCHANGED <<payload, time_slots, assignment_vars, model, penalty_vars,
                   objective_set, status, solver, validation,
                   validator_assignments>>

\* optimize_timetable: any other status -> return False, [], None, [], ...
NoSolutionFound ==
    /\ pc = "solved"
    /\ status \notin {"OPTIMAL", "FEASIBLE"}
    /\ result' = [success |-> FALSE, assignments |-> <<>>,
                  fitness_score |-> NoneFitness, violations |-> <<>>,
                  message |-> solver.message]
    /\ pc' = "done"
    /\ UNCHANGED <<payload, time_slots, assignment_vars, model, penalty_vars,
                   objective_set, status, solver, validation,
                   validator_assignments>>

\* a variant of validate_timetable whose except branch returns a valid result instead
\* of raising
validate_timetable_swallows(assignments) ==
    IF validate_raises(assignments)
    THEN [raised |-> FALSE, is_valid |-> TRUE, conflicts |-> <<>>]
    ELSE validate_all(assignments)

\* validate_timetable: set_assignments, then validate_all; an error is re-raised
validate_timetable(assignments) ==
    IF validate_raises(assignments)
    THEN [raised |-> TRUE, is_valid |-> FALSE, conflicts |-> <<>>]
    ELSE validate_all(assignments)

\* validate_timetable(payload, assignments) on the assignments of a successful result
ValidateTimetable ==
    /\ pc = "done"
    /\ result.success
    /\ validator_assignments' = result.assignments
    /\ validation' = validate_timetable(result.assignments)
    /\ pc' = "validated"
    /\ UNCHANGED <<payload, time_slots, assignment_vars, model, penalty_vars,
                   objective_set, status, solver, result>>

(***************************************************************************)
(* The explored payloads (GenerationPayload).  Only the fields the engine  *)
(* reads are kept.  Durations are a few minutes and the working window     *)
(* starts at 08:58, so that times cross the hour.                          *)
(***************************************************************************)
CourseInput(duration, room_type, instructor_ids, group_ids) ==
    [duration |-> duration, room_type |-> room_type,
     instructor_ids |-> instructor_ids, group_ids |-> group_ids]

InstructorInput(availability, preferences) ==
    [availability |-> availability, preferences |-> preferences]

RoomInput(capacity, type) == [capacity |-> capacity, type |-> type]

StudentGroupInput(size) == [size |-> size]

WorkStart == <<8, 58>>

After(n) == format_time(time_to_minutes(WorkStart) + n)

GenerationPayload(courses, instructors, rooms, groups, hard, soft, window) ==
    [courses |-> courses, instructors |-> instructors, rooms |-> rooms,
     groups |-> groups,
     constraints |-> [hard |-> hard, soft |-> soft,
                      working_hours_start |-> WorkStart,
                      working_hours_end |-> After(window)]]

NoSoft ==
    [instructorPreferencesWeight |-> 0, compactSchedulesWeight |-> 0,
     balancedDailyLoadWeight |-> 0, preferredRoomsWeight |-> 0]

Hard(room, instructor, capacity, type) ==
    [noRoomDoubleBooking |-> room, noInstructorDoubleBooking |-> instructor,
     roomCapacityCheck |-> capacity, roomTypeMatch |-> type]

Dict1(k, v) == [x \in {k} |-> v]

Durations == 1..MaxDuration

TwoRooms == [r \in {1, 2} |-> IF r = 1 THEN RoomInput(2, "Lab") ELSE RoomInput(4, "Lecture")]

OneRoom == [r \in {1} |-> RoomInput(2, "Lab")]

TwoGroups == [g \in {1, 2} |-> StudentGroupInput(2)]

Range(from, to) == <<After(from), After(to)>>

Monday(window) == Dict1("MONDAY", {Range(0, window)})

MinOf(dur) == Min({dur[c] : c \in DOMAIN dur})

\* TimePayloads: durations, grids of 1..MaxSlots slots, shared instructor and group,
\* one or two rooms, the double-booking toggles
TimePayloads ==
    { GenerationPayload(
          [c \in DOMAIN dur |->
              CourseInput(dur[c], None,
                          IF c = 1 THEN {1} ELSE {x[1]},
                          IF c = 1 THEN {1} ELSE {x[2]})],
          [i \in {1, 2} |-> InstructorInput(Monday(slots * MinOf(dur)), EmptyDict)],
          x[5], TwoGroups, Hard(x[3], x[4], TRUE, TRUE), NoSoft, slots * MinOf(dur)) :
        dur \in UNION {[1..m -> Durations] : m \in 1..MaxCourses},
        slots \in 1..MaxSlots,
        x \in ({1, 2} \X {1, 2} \X BOOLEAN \X BOOLEAN \X {OneRoom})
              \cup ({1, 2} \X {1, 2} \X {TRUE} \X {TRUE} \X {TwoRooms})
              \cup ({<<1, 1, FALSE, FALSE, TwoRooms>>}) }

Availabilities ==
    { EmptyDict,
      Dict1("MONDAY", {}),
      Dict1("SATURDAY", {Range(0, 3)}),
      Dict1("TUESDAY", {Range(0, 3)}),
      Dict1("MONDAY", {Range(0, 1)}),
      Dict1("MONDAY", {Range(1, 3)}),
      Dict1("MONDAY", {Range(0, 1), Range(1, 3)}),
      [d \in {"MONDAY", "FRIDAY"} |-> IF d = "MONDAY" THEN {Range(0, 2)} ELSE {Range(0, 3)}] }

\* AvailPayloads: the availability of the instructors, window of three minutes
AvailPayloads ==
    { GenerationPayload(
          [c \in DOMAIN dur |-> CourseInput(dur[c], None, {1, 2}, {c})],
          [i \in {1, 2} |-> InstructorInput(IF i = 1 THEN av1 ELSE av2, EmptyDict)],
          OneRoom, TwoGroups, EmptyDict, NoSoft, 3) :
        dur \in UNION {[1..m -> Durations] : m \in 1..MaxCourses},
        av1 \in Availabilities, av2 \in {EmptyDict, Dict1("MONDAY", {Range(0, 1)})} }

RoomSets ==
    { EmptyDict,
      OneRoom,
      TwoRooms,
      [r \in {1, 2} |-> IF r = 1 THEN RoomInput(1, "Lab") ELSE RoomInput(4, "Lecture")] }

HardDicts ==
    { EmptyDict,
      Dict1("roomCapacityCheck", FALSE),
      Dict1("roomTypeMatch", FALSE),
      Hard(TRUE, TRUE, FALSE, FALSE),
      Hard(FALSE, FALSE, TRUE, TRUE) }

\* RoomPayloads: room types and capacities, group sizes, the capacity and type toggles
RoomPayloads ==
    { GenerationPayload(
          [c \in 1..n |-> CourseInput(1, IF c = 1 THEN type ELSE None, {c}, {c})],
          [i \in {1, 2} |-> InstructorInput(Monday(2), EmptyDict)],
          rooms,
          [g \in {1, 2} |-> StudentGroupInput(IF g = 1 THEN size ELSE 2)],
          hard, NoSoft, 2) :
        n \in 1..MaxCourses, type \in {None, "Lab", "Lecture", "Seminar"},
        rooms \in RoomSets, size \in 1..3, hard \in HardDicts }

Soft(pref, compact, balanced, room) ==
    [instructorPreferencesWeight |-> pref, compactSchedulesWeight |-> compact,
     balancedDailyLoadWeight |-> balanced, preferredRoomsWeight |-> room]

\* each weight alone, all, none, the defaults, a partial dict, a negative weight
SoftDicts ==
    { Soft(1, 0, 0, 0), Soft(0, 2, 0, 0), Soft(0, 0, 3, 0), Soft(0, 0, 0, 1),
      Soft(1, 2, 3, 1), NoSoft,
      EmptyDict, Dict1("balancedDailyLoadWeight", 0), Soft(0 - 1, 0, 0, 0) }

BothPreferences ==
    [k \in {"preferredDays", "preferredTimes"} |->
        IF k = "preferredDays" THEN {"MONDAY"} ELSE {Range(1, 3)}]

Preferences ==
    { EmptyDict,
      Dict1("preferredDays", {"TUESDAY"}),
      Dict1("preferredTimes", {Range(0, 1)}),
      BothPreferences }

RoomsAndPreferences ==
    ({OneRoom} \X Preferences) \cup ({TwoRooms} \X {EmptyDict, BothPreferences})

\* SoftPayloads: the soft weights and the instructor preferences, three slots a day
SoftPayloads ==
    { GenerationPayload(
          [c \in 1..n |-> CourseInput(1, None, {1}, {1})],
          [i \in {1} |->
              InstructorInput([d \in {"MONDAY", "TUESDAY"} |->
                                  IF d = "MONDAY" THEN {Range(0, 3)} ELSE {Range(0, 1)}],
                              x[2])],
          x[1], TwoGroups, EmptyDict, soft, 3) :
        n \in 1..MaxCourses, x \in RoomsAndPreferences, soft \in SoftDicts }

\* LoadPayloads: one instructor for MaxCourses + 1 courses, all on the one day the
\* instructor is available, in one slot or in a slot each
LoadPayloads ==
    { GenerationPayload(
          [c \in 1..(MaxCourses + 1) |-> CourseInput(1, None, {1}, {c})],
          [i \in {1} |-> InstructorInput(Dict1("MONDAY", {Range(0, x[2])}) , EmptyDict)],
          rooms,
          [g \in 1..(MaxCourses + 1) |-> StudentGroupInput(2)],
          x[1], soft, x[2]) :
        rooms \in {TwoRooms},
        x \in {<<Hard(FALSE, FALSE, TRUE, TRUE), 1>>, <<EmptyDict, MaxCourses + 1>>},
        soft \in {Soft(0, 0, 1, 0), Soft(0, 0, 3, 1)} }

\* ErrorPayloads: no course at all; a course whose group or instructor id the payload
\* lacks (id 3); courses longer than the working window, so that the grid is empty, or
\* in a window of two slots and a minute
ErrorPayloads ==
    { GenerationPayload(<<>>, [i \in {1} |-> InstructorInput(Monday(2), EmptyDict)],
                        OneRoom, TwoGroups, EmptyDict, NoSoft, 2) }
    \cup
    { GenerationPayload(
          [c \in {1} |-> CourseInput(1, type, {1}, {3})],
          [i \in {1} |-> InstructorInput(Monday(2), EmptyDict)],
          TwoRooms, TwoGroups, hard, soft, 2) :
        type \in {None, "Seminar"},
        hard \in {EmptyDict, Dict1("roomCapacityCheck", FALSE)},
        soft \in {NoSoft, Soft(0, 0, 0, 1)} }
    \cup
    { GenerationPayload(
          [c \in {1} |-> CourseInput(1, None, {x}, {1})],
          [i \in {1} |-> InstructorInput(Monday(2), EmptyDict)],
          TwoRooms, TwoGroups, EmptyDict, soft, 2) :
        x \in {3, 1}, soft \in {NoSoft, EmptyDict} }
    \cup
    { GenerationPayload(
          [c \in 1..n |-> CourseInput(MaxDuration, None, {1}, {1})],
          [i \in {1} |-> InstructorInput(Monday(window), EmptyDict)],
          OneRoom, TwoGroups, EmptyDict, soft, window) :
        n \in 1..MaxCourses, window \in {1, MaxDuration - 1, 2 * MaxDuration + 1},
        soft \in {NoSoft, EmptyDict} }

\* GapPayloads: two or three courses of 11 or 12 minutes, the first two of one group,
\* all on MONDAY in a window of 14 slots.  The conflict rules count a course of 12
\* minutes in 6 slots, so two courses of one group start at least 6 slots apart, and
\* their gap is 60 minutes at 6 slots and more than 60 at 7.
GapDurations == {11, 12}

GapPayloads ==
    LET slots == 14
    IN  { GenerationPayload(
              [c \in 1..n |-> CourseInput(dur, None, {1}, {IF c = 3 THEN g ELSE 1})],
              [i \in {1} |-> InstructorInput(Monday(slots * dur), EmptyDict)],
              OneRoom, TwoGroups, EmptyDict, soft, slots * dur) :
            n \in 2..3, g \in {1, 2}, dur \in GapDurations,
            soft \in {NoSoft, Soft(0, 2, 0, 0)} }

\* DiagnosisPayloads: two courses that require room types, the first for one or two
\* groups, the second of one or two minutes,
\* in one Lab room of capacity 2, with groups that fit the room or do not
DiagnosisPayloads ==
    { GenerationPayload(
          [c \in {1, 2} |->
              CourseInput(IF c = 1 THEN 1 ELSE duration, types[c], {1},
                          IF c = 1 THEN group_ids ELSE {1})],
          [i \in {1} |-> InstructorInput(Monday(2), EmptyDict)],
          OneRoom,
          [g \in {1, 2} |-> StudentGroupInput(IF g = 1 THEN size ELSE 3)],
          hard, NoSoft, 2) :
        types \in {<<"Seminar", None>>, <<"Lab", "Seminar">>, <<"Seminar", "Lecture">>},
        group_ids \in {{1}, {1, 2}}, size \in {2, 3}, duration \in {1, 2},
        hard \in {EmptyDict, Dict1("roomCapacityCheck", FALSE)} }

Payloads ==
    TimePayloads \cup AvailPayloads \cup RoomPayloads \cup SoftPayloads \cup LoadPayloads
    \cup ErrorPayloads \cup GapPayloads \cup DiagnosisPayloads

Init ==
    /\ payload \in Payloads
    /\ pc = "new"
    /\ time_slots = <<>>
    /\ assignment_vars = {}
    /\ model = EmptyModel
    /\ penalty_vars = {}
    /\ objective_set = FALSE
    /\ status = "NONE"
    /\ solver = NoSolver
    /\ result = NoResult
    /\ validation = NoValidation
    /\ validator_assignments = <<>>

Next ==
    \/ NewOptimizer
    \/ CreateDecisionVariables
    \/ AddHardConstraints
    \/ AddSoftConstraints
    \/ SetObjective
    \/ Solve
    \/ ExtractSolution
    \/ NoSolutionFound
    \/ ValidateTimetable

Spec == Init /\ [][Next]_vars

(***************************************************************************)
(* validate_timetable on an externally supplied list of assignments        *)
(* (the stand-alone path): the payload and the lists it is called with.    *)
(***************************************************************************)
AssignmentOutput(course_id, instructor_id, room_id, group_id, day, from, to) ==
    [course_id |-> course_id, instructor_id |-> instructor_id, room_id |-> room_id,
     group_id |-> group_id, day |-> day,
     start_time |-> After(from), end_time |-> After(to)]

\* course 1 requires a Lab; room 1 is a Lab of capacity 2, room 2 a Lecture room of
\* capacity 4; group 2 has size 3; instructor 1 is available MONDAY 08:58-09:00 and
\* TUESDAY 08:57-09:02, instructor 2 MONDAY 08:58-08:59 and 08:59-09:01; the working
\* window is 08:58-09:01
ValidatorPayloads ==
    { GenerationPayload(
          [c \in 1..MaxCourses |->
              CourseInput(1, IF c = 1 THEN "Lab" ELSE None, {1, 2}, {1, 2})],
          [i \in {1, 2} |->
              InstructorInput(
                  IF i = 1
                  THEN [d \in {"MONDAY", "TUESDAY"} |->
                           IF d = "MONDAY" THEN {Range(0, 2)} ELSE {Range(0 - 1, 4)}]
                  ELSE Dict1("MONDAY", {Range(0, 1), Range(1, 3)}),
                  EmptyDict)],
          TwoRooms,
          [g \in {1, 2} |-> StudentGroupInput(g + 1)],
          hard, NoSoft, 3) :
        hard \in {EmptyDict, Hard(FALSE, FALSE, FALSE, FALSE)} }

\* [from, to) in minutes after 08:58: inside, at the edges of and outside the window
Intervals ==
    { <<0, 1>>, <<1, 2>>, <<0, 2>>, <<1, 3>>, <<0, 3>>, <<0 - 1, 1>>, <<2, 4>> }

\* the first assignment of a list; room 3, instructor 3, group 3 and course
\* MaxCourses + 1 are not in the payload
FirstAssignments ==
    { AssignmentOutput(1, 1, 1, 1, "MONDAY", x[1], x[2]) :
        x \in {<<0, 1>>, <<0, 2>>, <<1, 2>>} }
    \cup { AssignmentOutput(1, 1, 3, 1, "MONDAY", 0, 1),
           AssignmentOutput(1, 3, 1, 1, "MONDAY", 0, 1),
           AssignmentOutput(1, 1, 1, 3, "MONDAY", 0, 1),
           AssignmentOutput(MaxCourses + 1, 1, 1, 1, "MONDAY", 0, 1) }

SecondAssignments ==
    { AssignmentOutput(c, i, r, g, d, x[1], x[2]) :
        c \in 1..MaxCourses, i \in {1, 2}, r \in {1, 2}, g \in {1, 2},
        d \in {"MONDAY", "TUESDAY", "SATURDAY"}, x \in Intervals }

LaterAssignments ==
    { AssignmentOutput(2, 2, 2, 2, "TUESDAY", 0, 1),
      AssignmentOutput(1, 1, 1, 1, "MONDAY", 1, 2) }

RECURSIVE AssignmentLists(_)
AssignmentLists(n) ==
    IF n = 0 THEN {<<>>}
    ELSE { Append(l, a) :
             l \in AssignmentLists(n - 1),
             a \in (IF n = 1 THEN FirstAssignments
                    ELSE IF n = 2 THEN SecondAssignments
                    ELSE LaterAssignments) }

\* validate_timetable(payload, assignments) on a supplied list of up to one assignment
\* more than there are courses
ValidateAssignments ==
    /\ pc = "external"
    /\ \E n \in 0..(MaxCourses + 1) : \E assignments \in AssignmentLists(n) :
          /\ validator_assignments' = assignments
          /\ validation' = validate_timetable(assignments)
    /\ pc' = "checked"
    /\ UNCHANGED <<payload, time_slots, assignment_vars, model, penalty_vars,
                   objective_set, status, solver, result>>

InitValidator ==
    /\ payload \in ValidatorPayloads
    /\ pc = "external"
    /\ time_slots = <<>>
    /\ assignment_vars = {}
    /\ model = EmptyModel
    /\ penalty_vars = {}
    /\ objective_set = FALSE
    /\ status = "NONE"
    /\ solver = NoSolver
    /\ result = NoResult
    /\ validation = NoValidation
    /\ validator_assignments = <<>>

\* a second payload that differs from the first in constraints.hard and
\* constraints.soft only, built after the first call has returned
ReplaceConstraints ==
    /\ pc = "checked"
    /\ \E hard \in {EmptyDict, Hard(FALSE, FALSE, FALSE, FALSE)} :
       \E soft \in {NoSoft, Soft(1, 1, 1, 1)} :
          /\ hard # payload.constraints.hard \/ soft # payload.constraints.soft
          /\ payload' = [payload EXCEPT !.constraints.hard = hard,
                                        !.constraints.soft = soft]
    /\ pc' = "reconfigured"
    /\ UNCHANGED <<validator_assignments, validation, time_slots, assignment_vars,
                   model, penalty_vars, objective_set, status, solver, result>>

\* validate_timetable(payload, assignments) with the second payload and the same list
RevalidateAssignments ==
    /\ pc = "reconfigured"
    /\ validation' = validate_timetable(validator_assignments)
    /\ pc' = "rechecked"
    /\ UNCHANGED <<payload, validator_assignments, time_slots, assignment_vars, model,
                   penalty_vars, objective_set, status, solver, result>>

NextValidator ==
    \/ ValidateAssignments
    \/ ReplaceConstraints
    \/ RevalidateAssignments

SpecValidator == InitValidator /\ [][NextValidator]_vars

(***************************************************************************)
(* Properties of a returned result.                                        *)
(***************************************************************************)
Returned == pc \in {"done", "validated"}

Success == Returned /\ result.success

Assignments == result.assignments

Idx == 1..Len(Assignments)

start_min(a) == time_to_minutes(a.start_time)

end_min(a) == time_to_minutes(a.end_time)

\* [start_time, end_time) of a and b share a minute
IntervalsOverlap(a, b) == start_min(a) < end_min(b) /\ start_min(b) < end_min(a)

AssignmentsOf(c) == {n \in Idx : Assignments[n].course_id = c}

\* C1 (as claimed): on success=true every course id of the payload appears in
\* exactly one returned assignment, also a course that has no candidate variable.
C1_CourseCoverage ==
    Success => \A c \in DOMAIN payload.courses : Cardinality(AssignmentsOf(c)) = 1

\* C2 (as claimed): in a successful result no two assignments that share a room, an
\* instructor or a group on the same day have overlapping [start_time, end_time).
C2_ResourceExclusivity ==
    Success =>
        \A m \in Idx : \A n \in Idx :
            (/\ m < n
             /\ Assignments[m].day = Assignments[n].day
             /\ \/ Assignments[m].room_id = Assignments[n].room_id
                \/ Assignments[m].instructor_id = Assignments[n].instructor_id
                \/ Assignments[m].group_id = Assignments[n].group_id)
            => ~IntervalsOverlap(Assignments[m], Assignments[n])

(***************************************************************************)
(* A valid timetable in true minute semantics: one (day, grid slot, room,  *)
(* eligible instructor, participating group) per course that fits the      *)
(* working window, with the hard rules read on minute intervals.           *)
(***************************************************************************)
KeyStart(key) == time_to_minutes(slot_start(s_idx(key)))

KeyEnd(key) == KeyStart(key) + payload.courses[c_id(key)].duration

KeysOverlap(k1, k2) == KeyStart(k1) < KeyEnd(k2) /\ KeyStart(k2) < KeyEnd(k1)

KeyAdmissible(key) ==
    LET hard == payload.constraints.hard
        course == payload.courses[c_id(key)]
        room == payload.rooms[r_id(key)]
    IN  /\ i_id(key) \in DOMAIN payload.instructors
        /\ g_id(key) \in DOMAIN payload.groups
        /\ Get(hard, "roomCapacityCheck", TRUE)
             => room.capacity >= payload.groups[g_id(key)].size
        /\ Get(hard, "roomTypeMatch", TRUE)
             => (course.room_type # None => room.type = course.room_type)
        /\ \E time_range \in Get(payload.instructors[i_id(key)].availability,
                                 d_of(key), {}) :
               /\ time_to_minutes(range_start(time_range)) <= KeyStart(key)
               /\ KeyEnd(key) <= time_to_minutes(range_end(time_range))

KeysCompatible(k1, k2) ==
    LET hard == payload.constraints.hard
    IN  (d_of(k1) = d_of(k2) /\ KeysOverlap(k1, k2)) =>
            /\ Get(hard, "noRoomDoubleBooking", TRUE) => r_id(k1) # r_id(k2)
            /\ Get(hard, "noInstructorDoubleBooking", TRUE) => i_id(k1) # i_id(k2)
            /\ g_id(k1) # g_id(k2)

RECURSIVE Timetables(_)
Timetables(courses) ==
    IF courses = {} THEN {{}}
    ELSE LET c == CHOOSE x \in courses : TRUE
         IN  { rest \cup {key} :
                 rest \in Timetables(courses \ {c}),
                 key \in {k \in assignment_vars : c_id(k) = c /\ KeyAdmissible(k)} }

ValidTimetableExists ==
    \E chosen \in Timetables(DOMAIN payload.courses) :
        \A k1 \in chosen : \A k2 \in chosen : k1 # k2 => KeysCompatible(k1, k2)

\* C3 (as claimed): the solve is INFEASIBLE only when no valid timetable exists.
C3_InfeasibleIsExact ==
    (pc \in {"solved", "done"} /\ status = "INFEASIBLE") => ~ValidTimetableExists

\* the payloads that leave every hard toggle enabled
HardEnabled ==
    /\ Get(payload.constraints.hard, "noRoomDoubleBooking", TRUE)
    /\ Get(payload.constraints.hard, "noInstructorDoubleBooking", TRUE)
    /\ Get(payload.constraints.hard, "roomCapacityCheck", TRUE)
    /\ Get(payload.constraints.hard, "roomTypeMatch", TRUE)

InitHardOn == Init /\ HardEnabled

SpecHardOn == InitHardOn /\ [][Next]_vars

\* C4 (as claimed): validate_timetable on the assignments of a successful result
\* returns is_valid = true and no conflict.
C4_ValidatorSoundness ==
    pc = "validated" =>
        /\ ~validation.raised
        /\ validation.is_valid
        /\ validation.conflicts = <<>>

RangesOf(a) == Get(payload.instructors[a.instructor_id].availability, a.day, {})

\* C5 (as claimed): every returned assignment's [start_time, end_time) lies within a
\* single availability interval of its instructor on its day.
C5_InstructorAvailability ==
    Success =>
        \A n \in Idx :
            \E time_range \in RangesOf(Assignments[n]) :
                /\ time_to_minutes(range_start(time_range)) <= start_min(Assignments[n])
                /\ end_min(Assignments[n]) <= time_to_minutes(range_end(time_range))

RoomFits(a) ==
    payload.rooms[a.room_id].capacity >= payload.groups[a.group_id].size

\* C6 (as claimed): for every payload, every returned assignment's room has a capacity
\* of at least its group's size.
C6_Capacity == Success => \A n \in Idx : RoomFits(Assignments[n])

\* C6 (amended): when hard.roomCapacityCheck is true or absent, every returned
\* assignment's room has a capacity of at least its group's size.
C6_CapacityWhenChecked ==
    (Success /\ Get(payload.constraints.hard, "roomCapacityCheck", TRUE))
        => \A n \in Idx : RoomFits(Assignments[n])

\* a successful result with roomCapacityCheck enabled whose group is too large for another
\* room of the payload
C6_Witness ==
    /\ Success
    /\ Get(payload.constraints.hard, "roomCapacityCheck", TRUE)
    /\ \E n \in Idx : \E r \in DOMAIN payload.rooms :
           payload.rooms[r].capacity < payload.groups[Assignments[n].group_id].size

TypeMatches(a) ==
    payload.courses[a.course_id].room_type # None
        => payload.rooms[a.room_id].type = payload.courses[a.course_id].room_type

\* C7 (as claimed): for every payload, a returned assignment of a course that declares
\* a room_type is in a room of that type.
C7_TypeMatch == Success => \A n \in Idx : TypeMatches(Assignments[n])

\* C7 (amended): when hard.roomTypeMatch is true or absent, a returned assignment of a
\* course that declares a room_type is in a room of that type.
C7_TypeMatchWhenChecked ==
    (Success /\ Get(payload.constraints.hard, "roomTypeMatch", TRUE))
        => \A n \in Idx : TypeMatches(Assignments[n])

\* a successful result with roomTypeMatch enabled for a course that declares a type,
\* with a room of another type in the payload
C7_Witness ==
    /\ Success
    /\ Get(payload.constraints.hard, "roomTypeMatch", TRUE)
    /\ \E n \in Idx : \E r \in DOMAIN payload.rooms :
           /\ payload.courses[Assignments[n].course_id].room_type # None
           /\ payload.rooms[r].type # payload.courses[Assignments[n].course_id].room_type

\* C8: every returned assignment lies in the working window:
\* working_hours_start <= start_time and end_time <= working_hours_end.
C8_WorkingHours ==
    Success =>
        \A n \in Idx :
            /\ time_to_minutes(payload.constraints.working_hours_start)
                 <= start_min(Assignments[n])
            /\ end_min(Assignments[n])
                 <= time_to_minutes(payload.constraints.working_hours_end)

\* a returned assignment that ends with the window, of a course that does not fit
\* at the last slot
C8_Witness ==
    /\ Success
    /\ \E n \in Idx :
           /\ end_min(Assignments[n])
                = time_to_minutes(payload.constraints.working_hours_end)
           /\ ~course_fits(payload.courses[Assignments[n].course_id], Len(time_slots) - 1)

\* C9: end_time - start_time of every returned assignment is its course's duration.
C9_DurationConsistency ==
    Success =>
        \A n \in Idx :
            end_min(Assignments[n]) - start_min(Assignments[n])
                = payload.courses[Assignments[n].course_id].duration

\* a returned assignment of a course longer than the slot step that crosses the hour
C9_Witness ==
    /\ Success
    /\ \E n \in Idx :
           /\ Assignments[n].start_time[1] # Assignments[n].end_time[1]
           /\ Assignments[n].end_time # time_slots[1][2]
           /\ payload.courses[Assignments[n].course_id].duration
                > time_to_minutes(time_slots[1][2]) - time_to_minutes(time_slots[1][1])

\* C10 (as claimed): with penalty terms emitted 0 <= fitness <= 100, with none
\* fitness = 0.
C10_FitnessBounds ==
    Success =>
        IF penalty_vars # {}
        THEN /\ result.fitness_score.den > 0
             /\ 0 <= result.fitness_score.num
             /\ result.fitness_score.num <= 100 * result.fitness_score.den
        ELSE result.fitness_score = Fitness(0, 1)

(***************************************************************************)
(* Properties of validate_timetable on a supplied list of assignments.     *)
(***************************************************************************)
Checked == pc = "checked" /\ ~validation.raised

Supplied == validator_assignments

SuppliedIdx == 1..Len(Supplied)

SuppliedPairs == {pair \in SuppliedIdx \X SuppliedIdx : pair[1] < pair[2]}

\* two supplied assignments that share the resource and the day and overlap
Clash(pair, resource) ==
    /\ Supplied[pair[1]][resource] = Supplied[pair[2]][resource]
    /\ Supplied[pair[1]].day = Supplied[pair[2]].day
    /\ IntervalsOverlap(Supplied[pair[1]], Supplied[pair[2]])

InsideAvailability(a) ==
    \E time_range \in RangesOf(a) :
        /\ time_to_minutes(range_start(time_range)) <= start_min(a)
        /\ end_min(a) <= time_to_minutes(range_end(time_range))

\* the hard rules of the compiler that the supplied list violates
ViolatedRules ==
    {rule \in {"course_uniqueness", "room_conflict", "instructor_conflict",
               "group_conflict", "room_capacity", "room_type",
               "instructor_availability"} :
        CASE rule = "course_uniqueness" ->
                 \E c \in DOMAIN payload.courses :
                     Cardinality({n \in SuppliedIdx : Supplied[n].course_id = c}) # 1
          [] rule = "room_conflict" -> \E pair \in SuppliedPairs : Clash(pair, "room_id")
          [] rule = "instructor_conflict" ->
                 \E pair \in SuppliedPairs : Clash(pair, "instructor_id")
          [] rule = "group_conflict" -> \E pair \in SuppliedPairs : Clash(pair, "group_id")
          [] rule = "room_capacity" -> \E n \in SuppliedIdx : ~RoomFits(Supplied[n])
          [] rule = "room_type" -> \E n \in SuppliedIdx : ~TypeMatches(Supplied[n])
          [] rule = "instructor_availability" ->
                 \E n \in SuppliedIdx : ~InsideAvailability(Supplied[n])}

Tags == {validation.conflicts[n].constraint_type : n \in 1..Len(validation.conflicts)}

\* C11 (as claimed): a supplied list that violates exactly one of the seven hard rules
\* (course uniqueness included) is reported with is_valid = false and a conflict tagged
\* for that rule.
C11_ValidatorDetection ==
    (Checked /\ Cardinality(ViolatedRules) = 1) =>
        /\ ~validation.is_valid
        /\ \A rule \in ViolatedRules :
               IF rule = "course_uniqueness"
               THEN Tags \ {"room_conflict", "instructor_conflict", "group_conflict",
                            "room_capacity", "room_type", "instructor_availability",
                            "working_hours"} # {}
               ELSE rule \in Tags

\* C12: whenever validate_timetable returns, is_valid holds exactly when conflicts is
\* empty, and every conflict has severity "hard".
C12_ValidIffNoConflicts ==
    ((pc \in {"checked", "validated"}) /\ ~validation.raised) =>
        /\ validation.is_valid <=> (validation.conflicts = <<>>)
        /\ \A n \in 1..Len(validation.conflicts) :
               validation.conflicts[n].severity = "hard"

\* a supplied list with a conflict of every check but one, reported invalid
C12_Witness ==
    /\ Checked
    /\ ~validation.is_valid
    /\ Cardinality(Tags) >= 5
    /\ "working_hours" \in Tags

ConflictsTagged(tag) ==
    {n \in 1..Len(validation.conflicts) : validation.conflicts[n].constraint_type = tag}

OverlapTag(resource) ==
    CASE resource = "room_id" -> "room_conflict"
      [] resource = "instructor_id" -> "instructor_conflict"
      [] resource = "group_id" -> "group_conflict"

\* C13: for each of room, instructor and group, validate_timetable reports one
\* conflict of that kind for every unordered pair of assignments with the same id and
\* day and s1 < e2 and s2 < e1, naming the two courses, and no other conflict of that
\* kind.
C13_OverlapDetection ==
    Checked =>
        \A resource \in {"room_id", "instructor_id", "group_id"} :
            LET clashes == {pair \in SuppliedPairs : Clash(pair, resource)}
                reported == ConflictsTagged(OverlapTag(resource))
            IN  /\ Cardinality(reported) = Cardinality(clashes)
                /\ \A pair \in clashes :
                       \E n \in reported :
                           validation.conflicts[n].affected_assignments
                             = <<Supplied[pair[1]].course_id, Supplied[pair[2]].course_id>>

\* three assignments of which two overlap in one room and two are back to back in one
\* room for one group: one room conflict is reported
C13_Witness ==
    /\ Checked
    /\ \E pair \in SuppliedPairs :
           /\ Supplied[pair[1]].room_id = Supplied[pair[2]].room_id
           /\ Supplied[pair[1]].group_id = Supplied[pair[2]].group_id
           /\ Supplied[pair[1]].day = Supplied[pair[2]].day
           /\ end_min(Supplied[pair[1]]) = start_min(Supplied[pair[2]])
    /\ Len(Supplied) = 3
    /\ Cardinality(ConflictsTagged("room_conflict")) = 1

\* the conflicts of a kind that name the course, and the supplied assignments of the
\* course that satisfy a condition
ConflictsAbout(tag, c) ==
    {n \in ConflictsTagged(tag) : validation.conflicts[n].affected_assignments = <<c>>}

CoursesSupplied == {Supplied[n].course_id : n \in SuppliedIdx}

\* C14: validate_timetable reports an instructor_availability conflict for an
\* assignment exactly when no availability interval [a, b] of its instructor on its
\* day has a <= start_time and end_time <= b.
C14_AvailabilityCheck ==
    Checked =>
        /\ \A c \in CoursesSupplied :
               Cardinality(ConflictsAbout("instructor_availability", c))
                 = Cardinality({n \in SuppliedIdx :
                                   /\ Supplied[n].course_id = c
                                   /\ ~InsideAvailability(Supplied[n])})
        /\ \A n \in ConflictsTagged("instructor_availability") :
               \E c \in CoursesSupplied :
                   validation.conflicts[n].affected_assignments = <<c>>

\* an assignment inside an availability interval beside one that spans two adjacent
\* intervals of its instructor: one conflict
C14_Witness ==
    /\ Checked
    /\ Len(Supplied) = 2
    /\ InsideAvailability(Supplied[1])
    /\ Supplied[2].instructor_id = 2
    /\ Supplied[2].day = "MONDAY"
    /\ Supplied[2].start_time = After(0)
    /\ Supplied[2].end_time = After(2)
    /\ Cardinality(ConflictsTagged("instructor_availability")) = 1

InsideWorkingHours(a) ==
    /\ time_to_minutes(payload.constraints.working_hours_start) <= start_min(a)
    /\ end_min(a) <= time_to_minutes(payload.constraints.working_hours_end)

\* C15: validate_timetable reports a working_hours conflict for an assignment exactly
\* when start_time < working_hours_start or end_time > working_hours_end.
C15_WorkingHoursCheck ==
    Checked =>
        /\ \A c \in CoursesSupplied :
               Cardinality(ConflictsAbout("working_hours", c))
                 = Cardinality({n \in SuppliedIdx :
                                   /\ Supplied[n].course_id = c
                                   /\ ~InsideWorkingHours(Supplied[n])})
        /\ \A n \in ConflictsTagged("working_hours") :
               \E c \in CoursesSupplied :
                   validation.conflicts[n].affected_assignments = <<c>>

\* an assignment over the whole working window, start to end, is accepted
C15_Witness ==
    /\ Checked
    /\ \E n \in SuppliedIdx :
           /\ Supplied[n].start_time = payload.constraints.working_hours_start
           /\ Supplied[n].end_time = payload.constraints.working_hours_end
    /\ ConflictsTagged("working_hours") = {}

(***************************************************************************)
(* Properties of the error handling of optimize_timetable.                 *)
(***************************************************************************)
SolutionFound == status \in {"OPTIMAL", "FEASIBLE"}

\* an exception was raised: before a solver status was kept, or in the extraction
ErrorRaised ==
    /\ Returned
    /\ \/ status = "NONE"
       \/ SolutionFound /\ ~result.success

NothingReturned ==
    /\ ~result.success
    /\ result.assignments = <<>>
    /\ result.fitness_score = NoneFitness
    /\ result.violations = <<>>

\* C16: an error raised while building the grid, creating variables, compiling
\* constraints, solving or extracting is returned as success=false, no assignments,
\* fitness None, no violations and a message with the exception text.
C16_ErrorsAreReturned ==
    ErrorRaised =>
        /\ NothingReturned
        /\ result.message.text = "Optimization failed: "
        /\ result.message.issues \in {<<"ValueError">>, <<"KeyError">>}

\* the empty course list: min() raises ValueError while the grid is built
C16_Witness ==
    /\ Returned
    /\ payload.courses = <<>>
    /\ result = Failed("ValueError")

\* C17 (as claimed): success=true exactly when the solver status is OPTIMAL or
\* FEASIBLE; for every other status success=false with no assignments, fitness None
\* and no violations.
C17_SuccessIffSolved ==
    Returned =>
        /\ result.success <=> SolutionFound
        /\ ~SolutionFound => NothingReturned

\* C17 (amended): success=true exactly when the solver status is OPTIMAL or FEASIBLE
\* and the extraction raises no error; otherwise success=false with no assignments,
\* fitness None and no violations.
C17_SuccessIffSolvedAndExtracted ==
    Returned =>
        /\ result.success <=> (SolutionFound /\ ~extract_raises(solver.chosen))
        /\ ~result.success => NothingReturned

\* an INFEASIBLE solve returned as a failure with the analyzer's message
C17_Witness ==
    /\ Returned
    /\ status = "INFEASIBLE"
    /\ ~result.success
    /\ result.message.text = "No feasible solution: "

\* C18 (as claimed): when no course fits in the working window, so that the grid is
\* empty, the problem is reported infeasible, with success=false.
C18_EmptyGridInfeasible ==
    (Returned /\ payload.courses # <<>> /\ time_slots = <<>>) =>
        /\ ~SolutionFound
        /\ ~result.success

(***************************************************************************)
(* Properties of the soft weights and of the fitness.                      *)
(***************************************************************************)
\* the kinds of penalty term a soft rule emits
KindsOf(weight_key) ==
    CASE weight_key = "instructorPreferencesWeight" -> {"pref_day", "pref_time"}
      [] weight_key = "compactSchedulesWeight" -> {"gap"}
      [] weight_key = "balancedDailyLoadWeight" -> {"diff"}
      [] weight_key = "preferredRoomsWeight" -> {"room_size"}

WeightKeys ==
    {"instructorPreferencesWeight", "compactSchedulesWeight",
     "balancedDailyLoadWeight", "preferredRoomsWeight"}

\* C19 (as claimed): a soft rule whose weight key is absent from constraints.soft emits
\* no penalty term; with soft = {} no term is emitted, no objective is set and the
\* returned fitness is 0.
C19_MissingWeightsAreZero ==
    /\ \A weight_key \in WeightKeys \ DOMAIN payload.constraints.soft :
           \A p \in penalty_vars : p.kind \notin KindsOf(weight_key)
    /\ payload.constraints.soft = EmptyDict =>
           /\ ~objective_set
           /\ Success => result.fitness_score = Fitness(0, 1)

\* the returned fitness is the number 0
FitnessIsZero ==
    /\ result.fitness_score.den > 0
    /\ result.fitness_score.num = 0

\* C20 (as claimed): on every successful result with fitness 0 the returned list of
\* soft violations is empty.
C20_ZeroFitnessNoViolations ==
    (Success /\ FitnessIsZero) => result.violations = <<>>

(***************************************************************************)
(* Properties of the post-hoc compactness report.                          *)
(***************************************************************************)
\* pairs of returned assignments of one group on one day that are consecutive in
\* start-time order and more than 60 minutes apart
WideGaps ==
    {pair \in Idx \X Idx :
        LET x == Assignments[pair[1]]
            y == Assignments[pair[2]]
        IN  /\ x.group_id = y.group_id
            /\ x.day = y.day
            /\ start_min(x) < start_min(y)
            /\ ~\E n \in Idx :
                   /\ Assignments[n].group_id = x.group_id
                   /\ Assignments[n].day = x.day
                   /\ start_min(x) < start_min(Assignments[n])
                   /\ start_min(Assignments[n]) < start_min(y)
            /\ start_min(y) - end_min(x) > 60}

CompactnessReports ==
    {n \in 1..Len(result.violations) :
        result.violations[n].constraint_type = "schedule_compactness"}

\* C21: on a successful result the schedule_compactness violations (severity "soft")
\* list exactly the pairs of course ids of a group's assignments that are consecutive in
\* start-time order on a day and separated by more than 60 minutes, one report a pair.
C21_CompactnessReport ==
    Success =>
        /\ \A n \in CompactnessReports : result.violations[n].severity = "soft"
        /\ {result.violations[n].affected_assignments : n \in CompactnessReports}
             = {<<Assignments[pair[1]].course_id, Assignments[pair[2]].course_id>> :
                    pair \in WideGaps}
        /\ Cardinality(CompactnessReports) = Cardinality(WideGaps)

\* a result with three assignments of one group on one day: the first two are exactly
\* 60 minutes apart and not reported, the last two are reported
C21_Witness ==
    /\ Success
    /\ Len(Assignments) = 3
    /\ \A n \in Idx : Assignments[n].group_id = 1 /\ Assignments[n].day = "MONDAY"
    /\ \E m, n \in Idx : start_min(Assignments[n]) - end_min(Assignments[m]) = 60
    /\ Cardinality(CompactnessReports) = 1
    /\ Cardinality(WideGaps) = 1

(***************************************************************************)
(* Properties of the infeasibility diagnosis.                              *)
(***************************************************************************)
\* courses that require a room type for which the payload has no room
MissingType ==
    {c \in DOMAIN payload.courses :
        /\ payload.courses[c].room_type # None
        /\ ~\E r \in DOMAIN payload.rooms :
               payload.rooms[r].type = payload.courses[c].room_type}

\* the room types the returned message mentions
TypesMentioned ==
    {payload.courses[result.message.issues[n].id].room_type :
        n \in {m \in 1..Len(result.message.issues) :
                  result.message.issues[m].kind = "room_type"}}

InfeasibleReturned == Returned /\ status = "INFEASIBLE"

IssuesBefore(c) ==
    (IF Cardinality(DOMAIN payload.courses)
          > Cardinality(DOMAIN payload.rooms) * Len(time_slots) * Len(days)
     THEN 1 ELSE 0)
    + Cardinality({pair \in (DOMAIN payload.courses) \X (DOMAIN payload.groups) :
                      /\ pair[2] \in payload.courses[pair[1]].group_ids
                      /\ ~\E r \in DOMAIN payload.rooms :
                             payload.rooms[r].capacity >= payload.groups[pair[2]].size})
    + Cardinality({b \in MissingType : b < c})

Analyzed(message) == message.text = "No feasible solution: "

\* C23: in every step of a request, the variables, the hard constraints, the soft
\* constraints and the objective are built in this order and before any solver status
\* exists; the solve starts only when the objective step is complete; a result with
\* success=true is produced only after the solve, from status OPTIMAL or FEASIBLE; the
\* analyzer runs only in the solve that returns INFEASIBLE, and never in a request that
\* extracts a solution.
C23_PipelineOrder ==
    [][ /\ assignment_vars' # assignment_vars => pc = "init" /\ pc' = "vars"
        /\ model' # model => pc = "vars" /\ pc' = "hard"
        /\ penalty_vars' # penalty_vars => pc = "hard" /\ pc' = "soft"
        /\ objective_set' # objective_set => pc = "soft" /\ pc' = "objective"
        /\ pc' = "objective" /\ pc # "objective" => pc = "soft"
        /\ pc' = "soft" /\ pc # "soft" => pc = "hard"
        /\ pc' = "hard" /\ pc # "hard" => pc = "vars"
        /\ pc \in {"init", "vars", "hard", "soft", "objective"} => status = "NONE"
        /\ status' # status => pc = "objective" /\ pc' = "solved"
        /\ result'.success /\ ~result.success =>
               /\ pc = "solved"
               /\ status \in {"OPTIMAL", "FEASIBLE"}
               /\ ~Analyzed(solver.message)
        /\ Analyzed(solver'.message) /\ ~Analyzed(solver.message) =>
               pc = "objective" /\ status' = "INFEASIBLE"
        /\ Analyzed(solver'.message) => ~result'.success
      ]_vars

\* a request that went through every step: penalty terms and an objective were built,
\* the solve returned FEASIBLE and the solution was extracted
C23_Witness ==
    /\ Success
    /\ penalty_vars # {}
    /\ objective_set
    /\ status = "FEASIBLE"
    /\ Assignments # <<>>

(***************************************************************************)
(* Properties of the time grid and of the variable space.                  *)
(***************************************************************************)
GridBuilt == pc # "new" /\ DOMAIN payload.courses # {}

WindowStart == time_to_minutes(payload.constraints.working_hours_start)

WindowEnd == time_to_minutes(payload.constraints.working_hours_end)

Step == Min({payload.courses[c].duration : c \in DOMAIN payload.courses})

\* C24: with step = the minimum course duration, slot k exists if and only if
\* working_hours_start + (k+1)*step <= working_hours_end, slot k is the interval from
\* working_hours_start + k*step to working_hours_start + (k+1)*step written as HH:MM,
\* slot 0 begins at working_hours_start and every slot lies inside the working window.
C24_TimeGrid ==
    GridBuilt =>
        /\ \A k \in 0..Len(time_slots) :
               (k < Len(time_slots)) <=> (WindowStart + (k + 1) * Step <= WindowEnd)
        /\ \A k \in 0..(Len(time_slots) - 1) :
               LET slot == time_slots[k + 1]
               IN  /\ time_to_minutes(slot[1]) = WindowStart + k * Step
                   /\ time_to_minutes(slot[2]) = WindowStart + (k + 1) * Step
                   /\ slot[1][2] \in 0..59 /\ slot[2][2] \in 0..59
                   /\ WindowStart <= time_to_minutes(slot[1])
                   /\ time_to_minutes(slot[2]) <= WindowEnd
        /\ time_slots # <<>> => time_slots[1][1] = payload.constraints.working_hours_start

\* a grid of two slots or more whose last slot ends before the end of the window
C24_Witness ==
    /\ GridBuilt
    /\ Len(time_slots) >= 2
    /\ time_to_minutes(time_slots[Len(time_slots)][2]) < WindowEnd
    /\ time_slots[2][1][1] = 9

VariablesCreated == pc = "vars"

\* every id a key can hold: the ids the payload defines or that a course names and one
\* id besides them, the seven days and the slot indexes up to one past the grid
KeyIds ==
    LET named == (DOMAIN payload.rooms) \cup (DOMAIN payload.instructors)
                 \cup (DOMAIN payload.groups)
                 \cup UNION {payload.courses[c].instructor_ids \cup payload.courses[c].group_ids :
                                c \in DOMAIN payload.courses}
    IN  named \cup {0}

KeyUniverse ==
    (DOMAIN payload.courses) \X Day \X (0..Len(time_slots)) \X KeyIds \X KeyIds \X KeyIds

\* C25: after create_decision_variables a variable exists for the key (c, d, s, r, i, g)
\* if and only if d is one of Monday-Friday, s is a grid slot, r is a room of the payload,
\* i is in c.instructor_ids, g is in c.group_ids and slot_start(s) + c.duration is at most
\* working_hours_end; nothing else removes a variable.
C25_VariableSpace ==
    VariablesCreated =>
        /\ assignment_vars \subseteq KeyUniverse
        /\ \A key \in KeyUniverse :
               key \in assignment_vars
                 <=> /\ key[2] \in {"MONDAY", "TUESDAY", "WEDNESDAY", "THURSDAY", "FRIDAY"}
                     /\ key[3] < Len(time_slots)
                     /\ key[4] \in DOMAIN payload.rooms
                     /\ key[5] \in payload.courses[key[1]].instructor_ids
                     /\ key[6] \in payload.courses[key[1]].group_ids
                     /\ WindowStart + key[3] * Step + payload.courses[key[1]].duration
                          <= WindowEnd

\* variables exist for a room too small for the group, for a room of another type than
\* the course requires and for a day the instructor is not available, while a course
\* has no variable at a slot where it does not fit
C25_Witness ==
    /\ pc = "vars"
    /\ \E key \in assignment_vars :
           /\ key[6] \in DOMAIN payload.groups
           /\ payload.rooms[key[4]].capacity < payload.groups[key[6]].size
    /\ \E key \in assignment_vars :
           /\ payload.courses[key[1]].room_type # None
           /\ payload.rooms[key[4]].type # payload.courses[key[1]].room_type
    /\ \E key \in assignment_vars :
           /\ key[5] \in DOMAIN payload.instructors
           /\ key[2] \notin DOMAIN payload.instructors[key[5]].availability
    /\ \E c \in DOMAIN payload.courses, s \in SlotIdxs :
           \A key \in assignment_vars : ~(key[1] = c /\ key[3] = s)

(***************************************************************************)
(* Properties of the slot occupancy in the non-overlap rules.              *)
(***************************************************************************)
\* the slots s, s+1, ..., s + ceil(d/step) - 1 of a variable
ExactSlots(key) ==
    LET d == payload.courses[key[1]].duration
    IN  key[3]..(key[3] + ((d + Step - 1) \div Step) - 1)

\* the sums <= 1 over the variables of one resource (field 4 room, 5 instructor,
\* 6 group of the key) that occupy one slot of one day, for the sums of two or more
ExactConflicts(field, ids) ==
    { S \in { {key \in assignment_vars :
                   key[field] = ids_day_slot[1] /\ key[2] = ids_day_slot[2]
                   /\ ids_day_slot[3] \in ExactSlots(key)}
              : ids_day_slot \in ids \X DaySet \X SlotIdxs }
      : Cardinality(S) > 1 }

HardCompiled == pc = "hard"

\* C26 (as claimed): in the room, instructor and group non-overlap constraints a variable
\* with start slot s for a course of d minutes is counted at exactly the slots
\* s, ..., s + ceil(d/step) - 1, step being the minimum course duration.
C26_SlotOccupancy ==
    HardCompiled =>
        model.le1 =
            (IF Get(payload.constraints.hard, "noRoomDoubleBooking", TRUE)
             THEN ExactConflicts(4, DOMAIN payload.rooms) ELSE {})
            \cup (IF Get(payload.constraints.hard, "noInstructorDoubleBooking", TRUE)
                  THEN ExactConflicts(5, DOMAIN payload.instructors) ELSE {})
            \cup ExactConflicts(6, DOMAIN payload.groups)

(***************************************************************************)
(* Properties of the errors of the validate path.                          *)
(***************************************************************************)
\* supplied assignments that name a course, instructor, room or group the payload lacks
Dangling ==
    {n \in SuppliedIdx :
        \/ Supplied[n].course_id \notin DOMAIN payload.courses
        \/ Supplied[n].instructor_id \notin DOMAIN payload.instructors
        \/ Supplied[n].room_id \notin DOMAIN payload.rooms
        \/ Supplied[n].group_id \notin DOMAIN payload.groups}

\* C27: when a supplied assignment names a course, instructor, room or group id that the
\* payload lacks, validate_timetable raises: it returns no (is_valid, conflicts) pair,
\* and never reports the list as valid.
C27_ValidateRaises ==
    (pc = "checked" /\ Dangling # {}) =>
        /\ validation.raised
        /\ ~validation.is_valid
        /\ validation.conflicts = <<>>

\* a list whose first assignment names a course the payload lacks and whose other
\* assignments clash: the call raises
C27_Witness ==
    /\ pc = "checked"
    /\ Len(Supplied) = 3
    /\ Supplied[1].course_id \notin DOMAIN payload.courses
    /\ \E pair \in SuppliedPairs : Clash(pair, "room_id")
    /\ validation.raised

(***************************************************************************)
(* Properties of the returned assignments.                                 *)
(***************************************************************************)
\* the assignment starts inside an availability range of its instructor on its day
StartsInsideAvailability(a) ==
    /\ a.instructor_id \in DOMAIN payload.instructors
    /\ a.day \in DOMAIN payload.instructors[a.instructor_id].availability
    /\ \E time_range \in payload.instructors[a.instructor_id].availability[a.day] :
           /\ time_to_minutes(range_start(time_range)) <= start_min(a)
           /\ start_min(a) < time_to_minutes(range_end(time_range))

\* C28: in every successful result each assignment's start time t satisfies a <= t < b
\* for an availability interval a-b of its instructor on its day; no assignment is on a
\* day for which the instructor's availability is missing or empty.
C28_AvailabilityAsCompiled ==
    Success => \A n \in Idx : StartsInsideAvailability(Assignments[n])

\* a successful result on a grid of two or more slots with an assignment that starts
\* inside a range of its instructor and ends after every range of that day
C28_Witness ==
    /\ Success
    /\ Len(time_slots) >= 2
    /\ \E n \in Idx :
           LET a == Assignments[n]
           IN  /\ StartsInsideAvailability(a)
               /\ \A time_range \in RangesOf(a) :
                      end_min(a) > time_to_minutes(range_end(time_range))

\* the assignment is made of ids of its course, of a room of the payload, of a day of
\* the week grid and of the start of a slot of the time grid
WellFormed(a) ==
    /\ a.course_id \in DOMAIN payload.courses
    /\ a.instructor_id \in payload.courses[a.course_id].instructor_ids
    /\ a.group_id \in payload.courses[a.course_id].group_ids
    /\ a.room_id \in DOMAIN payload.rooms
    /\ a.day \in {"MONDAY", "TUESDAY", "WEDNESDAY", "THURSDAY", "FRIDAY"}
    /\ \E k \in 0..(Len(time_slots) - 1) :
           /\ a.start_time = format_time(WindowStart + k * Step)
           /\ a.start_time = time_slots[k + 1][1]

\* C29: in every successful result each assignment has an instructor_id and a group_id
\* listed by its course, a room_id of a room of the payload, a day in Monday-Friday and
\* a start_time that is working_hours_start plus a multiple of the step, the start of a
\* grid slot.
C29_WellFormedAssignments ==
    Success => \A n \in Idx : WellFormed(Assignments[n])

\* a successful result for a payload of two rooms with an assignment away from the
\* first slot whose room id differs from its instructor id
C29_Witness ==
    /\ Success
    /\ Cardinality(DOMAIN payload.rooms) >= 2
    /\ \E n \in Idx :
           LET a == Assignments[n]
           IN  /\ WellFormed(a)
               /\ start_min(a) > WindowStart
               /\ a.room_id # a.instructor_id

(***************************************************************************)
(* The validator and the constraint configuration.                         *)
(***************************************************************************)
Rechecked == pc = "rechecked"

\* C30: for two payloads that differ only in constraints.hard and constraints.soft,
\* validate_timetable returns the same (is_valid, conflicts) for the same assignment
\* list: the checks run whatever the hard toggles say.
C30_ValidatorIgnoresToggles ==
    [][(pc = "reconfigured" /\ pc' = "rechecked") =>
          /\ validator_assignments' = validator_assignments
          /\ validation' = validation]_vars

\* a second call with every hard toggle false, the first call having had every toggle
\* at its default, that reports a room conflict, an instructor conflict and a capacity
\* conflict
C30_Witness ==
    /\ Rechecked
    /\ payload.constraints.hard = Hard(FALSE, FALSE, FALSE, FALSE)
    /\ payload.constraints.soft = NoSoft
    /\ ~validation.raised
    /\ {"room_conflict", "instructor_conflict", "room_capacity"}
           \subseteq {validation.conflicts[n].constraint_type :
                          n \in 1..Len(validation.conflicts)}

====
